---- MODULE Spec2Model ----
(***************************************************************************)
(* A state-machine model of block-sandbox: the lazily populated chunk      *)
(* grid (World), chunk terrain and visibility culling (Chunk) and the      *)
(* player's per-frame movement (Player).                                   *)
(*                                                                         *)
(* Numbers.  World positions are fixed-point: one block is U units, so     *)
(* that every constant of the player (0.1, 0.2, 0.25, 0.5) is an integer.  *)
(* Block positions and grid indexes are whole blocks.  The arithmetic is   *)
(* exact: the rounding error of IEEE doubles is not modelled.              *)
(***************************************************************************)
EXTENDS Integers, Sequences, FiniteSets, Bags, TLC

VARIABLES
    CHUNK_SIZE,     \* configuration: blocks per chunk side
    SEA_LEVEL,      \* configuration: flood level
    seed,           \* World.seed, the noise generator's seed
    chunks,         \* World.chunks: chunk index -> Chunk or Null (sparse)
    constructed,    \* ghost: how many Chunk objects were built for an index
    accessed,       \* ghost: in-bounds indexes some access has asked for
    result,         \* the last query and what it returned
    scene,          \* the render set: positions of the blocks in the Scene
    frustum,        \* Chunk.frustum of every chunk, as last computed from the camera
    culledAt,       \* ghost: the player position of a chunk's last visibility update
    player,         \* Player: position, velocityY, isGrounded, isJumping
    pc,             \* position inside Player.move()
    perlin,         \* the PerlinNoise objects: generator -> [seed, gradients]
    collidables,    \* the Collidable objects: object.position and boundingBox
    children,       \* Scene.getScene().children: the bag of the blocks' objects
    singletons,     \* the static fields of the classes Scene, Camera and Renderer
    camera          \* the THREE camera: projectionMatrix and matrixWorldInverse

vars == <<CHUNK_SIZE, SEA_LEVEL, seed, chunks, constructed, accessed, result,
          scene, frustum, culledAt, player, pc, perlin, collidables,
          children, singletons, camera>>

config == <<CHUNK_SIZE, SEA_LEVEL, seed>>
render == <<scene, frustum, culledAt, children>>

(***************************************************************************)
(* Constants of the program.                                               *)
(***************************************************************************)
\* null / undefined: absence (a record, so that it compares with blocks and chunks)
Null == [type |-> "null"]

U == 20                            \* fixed-point units per block

WORLD_SIZE_size == 4               \* WORLD_SIZE.size, chunks per axis
WORLD_SIZE_depth == 4              \* WORLD_SIZE.depth, blocks in y
BLOCK_SIZE == U
RENDER_BLOCK_DISTANCE == 2         \* blocks
GRAVITY == -1                      \* units per tick per tick (-0.05 block)
MAX_VELOCITY == 5                  \* units per tick (0.25 block)
JUMP_VELOCITY == U \div 5          \* .2
PLAYER_BASE_SPEED == U \div 10     \* .1
PLAYER_DIMENSIONS == [width |-> U \div 2, height |-> 2 * U, length |-> U \div 2]
PLAYER_SPAWN_POSITION == [x |-> 0, y |-> 5 * U, z |-> 0]
PLAYER_VERTICAL_OFFSET == PLAYER_DIMENSIONS.height \div 2 - BLOCK_SIZE \div 2
\* The spawn of the earlier player constants: outside the grid of
\* WORLD_SIZE.size chunks of 2 blocks, over no column at all.
PLAYER_SPAWN_OUTSIDE == [x |-> 0, y |-> 2 * U, z |-> 5 * U]

ChunkSizes == {2, 3}               \* configured chunk sizes explored
SeaLevels == {0, WORLD_SIZE_depth \div 2}
Seeds == 0 .. 3

(***************************************************************************)
(* JavaScript arithmetic.                                                  *)
(***************************************************************************)
\* Math.floor(v / d) for a position v in units and a length d in blocks.
FloorDiv(v, d) == v \div (d * U)
\* Math.floor(v) for a position in units, in blocks.
Floor(v) == v \div U
\* Math.ceil(v) for a position in units, in blocks.
Ceil(v) == -((-v) \div U)
\* Math.round(v): halves round towards +infinity.
Round(v) == (v + U \div 2) \div U
\* a % n of JavaScript: the remainder takes the sign of the dividend.
JsRem(a, n) == IF a >= 0 THEN a % n ELSE -((-a) % n)

Vec(x, y, z) == [x |-> x, y |-> y, z |-> z]

\* The element of a one-element set.  {e(v) : v \in {d}} names the value of d
\* once, where the code keeps it in a local.
Only(S) == CHOOSE v \in S : TRUE

(***************************************************************************)
(* PerlinNoise.  A generator g is [seed, gradients]: #seed and the cache   *)
(* #gradients, a function from the keys cached so far to their gradient.   *)
(* Sample coordinates are in quarters (NOISE_UNIT per 1.0): with them,     *)
(* every intermediate value of noise() is a dyadic rational that a double  *)
(* holds exactly, so the integer arithmetic below is the arithmetic of the *)
(* code.  Every method that looks a gradient up returns the generator too. *)
(***************************************************************************)
NOISE_UNIT == 4            \* sample coordinates: units per 1.0
SMOOTH_UNIT == 1024        \* smooth(t): units per 1.0 (t in quarters)
OCTAVES == 5               \* for (let i = 0 ; i < 5 ; i++)
AMPLITUDE_UNIT == 16       \* amplitude: units per 1.0 (halved OCTAVES - 1 times)
PERLIN_NOISE_AMPLITUDE == 1

\* const gradients: Gradient[]
gradients ==
    << <<1, 1>>, <<-1, 1>>, <<1, -1>>, <<-1, -1>>,
       <<1, 0>>, <<-1, 0>>, <<0, 1>>, <<0, -1>> >>

\* The generators built, the seeds each is built with and the points
\* sampled, in quarters: two points of one lattice cell and one with negative
\* coordinates.
NoiseGenerators == {1, 2}
NoiseSeeds == {<<0, 0>>, <<0, 8>>, <<42, -1>>}
NoisePoints == {<<6, 23>>, <<5, 22>>, <<-3, -2>>}
\* Points with integer coordinates, in quarters: (4, 12) and (7, 23) of the
\* tests; and one point inside a cell.
LatticePoints == {<<4 * NOISE_UNIT, 12 * NOISE_UNIT>>, <<7 * NOISE_UNIT, 23 * NOISE_UNIT>>,
                  <<6, 23>>}

\* new PerlinNoise(seed)
NewPerlinNoise(s) == [seed |-> s, gradients |-> [k \in {} |-> 0]]

\* ToInt32 of an integer, as two 16-bit limbs <<high, low>>.
ToInt32(v) == <<(v \div 65536) % 65536, v % 65536>>

\* ToInt32(v * (high * 65536 + low)): the product is exact in a double for
\* the lattice coordinates sampled.
ToInt32Product(v, high, low) ==
    <<(v * high + (v * low) \div 65536) % 65536, (v * low) % 65536>>

\* a ^ b on n-bit naturals.
RECURSIVE xorBits(_, _, _)
xorBits(a, b, n) ==
    IF n = 0 THEN 0
    ELSE ((a + b) % 2) + 2 * xorBits(a \div 2, b \div 2, n - 1)

\* a ^ b on int32 values held as limbs.
Xor32(a, b) == <<xorBits(a[1], b[1], 16), xorBits(a[2], b[2], 16)>>

\* Math.abs(v) % n for an int32 v held as limbs and n dividing 65536:
\* v is negative when bit 31 is set, and then |v| = 2^32 - v.
AbsMod(v, n) == IF v[1] >= 32768 THEN (-v[2]) % n ELSE v[2] % n

\* The index of PerlinNoise.getGradient:
\* Math.abs((ix * 1836311903) ^ (iy * 2971215073) ^ this.seed) % gradients.length
hashIndex(s, ix, iy) ==
    AbsMod(Xor32(Xor32(ToInt32Product(ix, 28019, 58719),
                       ToInt32Product(iy, 45337, 9441)),
                 ToInt32(s)),
           Len(gradients))

\* The cache key `${ix},${iy}` keeping the sum only.
gradientKey_sum(ix, iy) == <<ix + iy>>

\* The cache key `${ix},${iy}`: one key per pair.
gradientKey(ix, iy) == <<ix, iy>>

\* PerlinNoise.getGradient replacing the cache by the new entry.
getGradient_reset(g, ix, iy) ==
    LET key == gradientKey(ix, iy)
    IN  IF key \in DOMAIN g.gradients
        THEN [perlin |-> g, value |-> g.gradients[key]]
        ELSE Only({[perlin |-> [g EXCEPT !.gradients = key :> gradient],
                    value |-> gradient] :
                   gradient \in {gradients[hashIndex(g.seed, ix, iy) + 1]}})

\* PerlinNoise.getGradient
getGradient(g, ix, iy) ==
    LET key == gradientKey(ix, iy)
    IN  IF key \in DOMAIN g.gradients
        THEN [perlin |-> g, value |-> g.gradients[key]]
        ELSE Only({[perlin |-> [g EXCEPT !.gradients = key :> gradient @@ @],
                    value |-> gradient] :
                   gradient \in {gradients[hashIndex(g.seed, ix, iy) + 1]}})

\* PerlinNoise.smooth(t) for t in quarters, in SMOOTH_UNITs (NOISE_UNIT^5 of
\* them per 1.0): t * t * t * (t * (t * 6 - 15) + 10)
smooth(t) ==
    t * t * t * (t * (t * 6 - 15 * NOISE_UNIT) + 10 * NOISE_UNIT * NOISE_UNIT)

\* PerlinNoise.interpolate with a + x * (b + a).
interpolate_sum(a, b, x) == a * SMOOTH_UNIT + x * (b + a)

\* PerlinNoise.interpolate(a, b, x) for x in SMOOTH_UNITs: a + x * (b - a),
\* in units SMOOTH_UNIT times finer than those of a and b.
interpolate(a, b, x) == a * SMOOTH_UNIT + x * (b - a)

\* PerlinNoise.dotProduct with the point itself in place of its offset from
\* the lattice point.
dotProduct_point(g, ix, iy, x, y) ==
    Only({[perlin |-> gradient.perlin,
           value |-> gradient.value[1] * x + gradient.value[2] * y] :
          gradient \in {getGradient(g, ix, iy)}})

\* PerlinNoise.dotProduct, in quarters.
dotProduct(g, ix, iy, x, y) ==
    Only({[perlin |-> gradient.perlin,
           value |-> gradient.value[1] * (x - ix * NOISE_UNIT)
                        + gradient.value[2] * (y - iy * NOISE_UNIT)] :
          gradient \in {getGradient(g, ix, iy)}})

\* PerlinNoise.rawNoise, in units of 1 / (NOISE_UNIT * SMOOTH_UNIT^2).
rawNoise(g, x, y) ==
    LET x0 == x \div NOISE_UNIT
        x1 == x0 + 1
        y0 == y \div NOISE_UNIT
        y1 == y0 + 1
        sx == smooth(x - x0 * NOISE_UNIT)
        sy == smooth(y - y0 * NOISE_UNIT)
    IN  Only({Only({Only({Only({
            [perlin |-> n3.perlin,
             value |-> interpolate(interpolate(n0.value, n1.value, sx),
                                   interpolate(n2.value, n3.value, sx), sy)] :
            n3 \in {dotProduct(n2.perlin, x1, y1, x, y)}}) :
            n2 \in {dotProduct(n1.perlin, x0, y1, x, y)}}) :
            n1 \in {dotProduct(n0.perlin, x1, y0, x, y)}}) :
            n0 \in {dotProduct(g, x0, y0, x, y)}})

\* The loop of PerlinNoise.noise from octave i on; l holds the generator and
\* the locals total, frequency, amplitude and maxValue.
RECURSIVE octaves(_, _, _, _)
octaves(l, x, y, i) ==
    IF i = OCTAVES THEN l
    ELSE Only({octaves([perlin |-> raw.perlin,
                        total |-> l.total + raw.value * l.amplitude,
                        maxValue |-> l.maxValue + l.amplitude,
                        amplitude |-> l.amplitude \div 2,
                        frequency |-> l.frequency * 2], x, y, i + 1) :
               raw \in {rawNoise(l.perlin, x * l.frequency, y * l.frequency)}})

\* PerlinNoise.noise(x, y): total / maxValue as the fraction num / den.
noise(g, x, y) ==
    Only({[perlin |-> l.perlin,
           value |-> [num |-> l.total,
                      den |-> l.maxValue * NOISE_UNIT * SMOOTH_UNIT * SMOOTH_UNIT]] :
          l \in {octaves([perlin |-> g, total |-> 0, maxValue |-> 0, frequency |-> 1,
                          amplitude |-> PERLIN_NOISE_AMPLITUDE * AMPLITUDE_UNIT],
                         x, y, 0)}})

(***************************************************************************)
(* PerlinNoise on hundredths.  A sample at k / 100 is not a dyadic          *)
(* rational: the operators below keep four decimals of smooth(t) and of    *)
(* the first interpolation and six of rawNoise, rounding down, which is    *)
(* within NOISE_SLACK of the doubles of the code.                          *)
(***************************************************************************)
FINE_UNIT == 100           \* sample coordinates: units per 1.0
FINE_SMOOTH_UNIT == 10000  \* smooth(t) and interpolate: units per 1.0
FineSeeds == {0, 42, -1}
\* Sample points in hundredths: the point of the smoothness test, a point
\* one step before a lattice line and a point with negative coordinates.
FinePoints == {<<4, 12>>, <<99, 50>>, <<-1, -50>>}
FineSteps == {<<1, 0>>, <<0, 1>>}

\* PerlinNoise.smooth(t) for t in hundredths, in FINE_SMOOTH_UNITs:
\* t * t * t * (t * (t * 6 - 15) + 10), the product taken in two parts that
\* each fit 32 bits.
smoothFine(t) ==
    LET cube == t * t * t
        inner == t * (t * 6 - 15 * FINE_UNIT) + 10 * FINE_UNIT * FINE_UNIT
    IN  ((cube \div 1000) * inner + ((cube % 1000) * inner) \div 1000) \div 1000

\* PerlinNoise.interpolate(a, b, x) for x in FINE_SMOOTH_UNITs:
\* a + x * (b - a), in units FINE_SMOOTH_UNIT times finer than those of a, b.
interpolateFine(a, b, x) == a * FINE_SMOOTH_UNIT + x * (b - a)

\* PerlinNoise.dotProduct, in hundredths.
dotProductFine(g, ix, iy, x, y) ==
    Only({[perlin |-> gradient.perlin,
           value |-> gradient.value[1] * (x - ix * FINE_UNIT)
                        + gradient.value[2] * (y - iy * FINE_UNIT)] :
          gradient \in {getGradient(g, ix, iy)}})

\* PerlinNoise.rawNoise interpolating along x with sy and along y with sx.
rawNoiseFine_swapped(g, x, y) ==
    LET x0 == x \div FINE_UNIT
        x1 == x0 + 1
        y0 == y \div FINE_UNIT
        y1 == y0 + 1
        sx == smoothFine(x - x0 * FINE_UNIT)
        sy == smoothFine(y - y0 * FINE_UNIT)
    IN  Only({Only({Only({Only({
            [perlin |-> n3.perlin,
             value |-> interpolateFine(
                            interpolateFine(n0.value, n1.value, sy) \div FINE_UNIT,
                            interpolateFine(n2.value, n3.value, sy) \div FINE_UNIT,
                            sx) \div FINE_UNIT] :
            n3 \in {dotProductFine(n2.perlin, x1, y1, x, y)}}) :
            n2 \in {dotProductFine(n1.perlin, x0, y1, x, y)}}) :
            n1 \in {dotProductFine(n0.perlin, x1, y0, x, y)}}) :
            n0 \in {dotProductFine(g, x0, y0, x, y)}})

\* PerlinNoise.rawNoise for x, y in hundredths, in millionths.
rawNoiseFine(g, x, y) ==
    LET x0 == x \div FINE_UNIT
        x1 == x0 + 1
        y0 == y \div FINE_UNIT
        y1 == y0 + 1
        sx == smoothFine(x - x0 * FINE_UNIT)
        sy == smoothFine(y - y0 * FINE_UNIT)
    IN  Only({Only({Only({Only({
            [perlin |-> n3.perlin,
             value |-> interpolateFine(
                            interpolateFine(n0.value, n1.value, sx) \div FINE_UNIT,
                            interpolateFine(n2.value, n3.value, sx) \div FINE_UNIT,
                            sy) \div FINE_UNIT] :
            n3 \in {dotProductFine(n2.perlin, x1, y1, x, y)}}) :
            n2 \in {dotProductFine(n1.perlin, x0, y1, x, y)}}) :
            n1 \in {dotProductFine(n0.perlin, x1, y0, x, y)}}) :
            n0 \in {dotProductFine(g, x0, y0, x, y)}})

\* The loop of PerlinNoise.noise from octave i on, for x, y in hundredths.
RECURSIVE octavesFine(_, _, _, _)
octavesFine(l, x, y, i) ==
    IF i = OCTAVES THEN l
    ELSE Only({octavesFine([perlin |-> raw.perlin,
                            total |-> l.total + raw.value * l.amplitude,
                            maxValue |-> l.maxValue + l.amplitude,
                            amplitude |-> l.amplitude \div 2,
                            frequency |-> l.frequency * 2], x, y, i + 1) :
               raw \in {rawNoiseFine(l.perlin, x * l.frequency, y * l.frequency)}})

\* PerlinNoise.noise(x, y) for x, y in hundredths: total / maxValue as the
\* fraction num / den.
noiseFine(g, x, y) ==
    Only({[perlin |-> l.perlin,
           value |-> [num |-> l.total,
                      den |-> l.maxValue * FINE_UNIT * FINE_SMOOTH_UNIT]] :
          l \in {octavesFine([perlin |-> g, total |-> 0, maxValue |-> 0,
                              frequency |-> 1,
                              amplitude |-> PERLIN_NOISE_AMPLITUDE * AMPLITUDE_UNIT],
                             x, y, 0)}})

(***************************************************************************)
(* Terrain: Chunk.generateTerrain.                                         *)
(***************************************************************************)
\* The continuous column height normalizedNoiseValue * WORLD_SIZE.depth, in
\* quarter blocks: a deterministic function of the seed and the column, with
\* values in [0, WORLD_SIZE.depth].
columnHeight(worldX, worldZ) ==
    (7 * worldX + 11 * worldZ + 5 * seed + 3) % (4 * WORLD_SIZE_depth + 1)

\* The cases of the switch of BlockFactory.createBlock, and values of other
\* kinds a caller can pass for a BlockType.
BlockTypes == {"Dirt", "Grass", "Snow", "Stone", "Water"}
OtherTypes == {"Sand", "Bedrock", "undefined"}

\* BlockFactory.createBlock with a default case that builds a StoneBlock.
createBlock_default(type, position) ==
    IF type \in BlockTypes
    THEN [type |-> type, position |-> position]
    ELSE [type |-> "Stone", position |-> position]

\* BlockFactory.createBlock(type, position): the block, or the Error thrown.
createBlock(type, position) ==
    IF type \in BlockTypes
    THEN [type |-> type, position |-> position]
    ELSE [thrown |-> "Error", message |-> "Invalid type."]

\* The first pass starting at level 1.
stoneLevel_gap(height, y) == 4 * y < height /\ y > 0

\* The levels the first pass fills in a column of continuous height `height`
\* (in quarter blocks): for (let y = 0; y < height; y++)
stoneLevel(height, y) == 4 * y < height

\* The flood loop starting above the highest block.
waterLevel_above(highestBlockY, y) == y > highestBlockY /\ y <= SEA_LEVEL

\* The levels the flood loop writes: for (y = highestBlockY; y <= SEA_LEVEL; y++)
waterLevel(highestBlockY, y) == y >= highestBlockY /\ y <= SEA_LEVEL

\* The Dirt level with highestBlockY - 1 > 0.
dirtLevel_positive(highestBlockY, y) == y = highestBlockY - 1 /\ highestBlockY - 1 > 0

\* The level that gets Dirt: highestBlockY - 1, if (highestBlockY - 1 >= 0)
dirtLevel(highestBlockY, y) == y = highestBlockY - 1 /\ highestBlockY - 1 >= 0

generateTerrain(position) ==
    LET \* first pass: for (y = 0; y < height; y++) Stone
        stone(x, y, z) ==
            stoneLevel(columnHeight(x + position.x, z + position.z), y)
        \* second pass: the highest non-null y, 0 when the column is empty
        highestBlockY(x, z) ==
            IF \E y \in 0 .. WORLD_SIZE_depth - 1 : stone(x, y, z)
            THEN CHOOSE y \in 0 .. WORLD_SIZE_depth - 1 :
                    /\ stone(x, y, z)
                    /\ \A y2 \in y + 1 .. WORLD_SIZE_depth - 1 : ~stone(x, y2, z)
            ELSE 0
        cell(x, y, z) ==
            LET worldX == x + position.x
                worldZ == z + position.z
                h == highestBlockY(x, z)
                first == IF stone(x, y, z)
                         THEN createBlock("Stone", Vec(worldX, y, worldZ))
                         ELSE Null
            IN  IF h < SEA_LEVEL
                THEN IF waterLevel(h, y)
                     THEN createBlock("Water", Vec(worldX, y, worldZ))
                     ELSE first
                ELSE IF y = h
                     THEN createBlock("Grass", Vec(worldX, y, worldZ))
                     ELSE IF dirtLevel(h, y)
                          THEN createBlock("Dirt", Vec(worldX, y, worldZ))
                          ELSE first
    IN  [x \in 0 .. CHUNK_SIZE - 1 |->
            [y \in 0 .. WORLD_SIZE_depth - 1 |->
                [z \in 0 .. CHUNK_SIZE - 1 |-> cell(x, y, z)]]]

\* new Chunk(position, perlin); gen tells the objects built for one index apart.
NewChunk(position, gen) ==
    [position |-> position, blocks |-> generateTerrain(position), gen |-> gen]

\* Chunk.getBlock without the optional chaining: indexing a row that does not
\* exist throws.
getBlock_nochain(chunk, x, y, z) ==
    IF x \notin DOMAIN chunk.blocks THEN [type |-> "TypeError"]
    ELSE IF y \notin DOMAIN chunk.blocks[x] THEN [type |-> "TypeError"]
    ELSE IF z \notin DOMAIN chunk.blocks[x][y] THEN Null
    ELSE chunk.blocks[x][y][z]

\* Chunk.getBlock: this.blocks[x]?.[y]?.[z]
getBlock(chunk, x, y, z) ==
    IF x \notin DOMAIN chunk.blocks THEN Null
    ELSE IF y \notin DOMAIN chunk.blocks[x] THEN Null
    ELSE IF z \notin DOMAIN chunk.blocks[x][y] THEN Null
    ELSE chunk.blocks[x][y][z]

(***************************************************************************)
(* World: the sparse chunk grid.  A world value w carries World.chunks and *)
(* the two ghosts, so that a handler's successive calls thread through it. *)
(***************************************************************************)
ChunkIndexes == (0 .. WORLD_SIZE_size - 1) \X (0 .. WORLD_SIZE_size - 1)

TheWorld == [chunks |-> chunks, constructed |-> constructed, accessed |-> accessed]

\* World.getChunkIndexes
getChunkIndexes(position) ==
    LET halfWorldSize == WORLD_SIZE_size \div 2
    IN  [x |-> FloorDiv(position.x, CHUNK_SIZE) + halfWorldSize,
         z |-> FloorDiv(position.z, CHUNK_SIZE) + halfWorldSize]

\* World.isChunkInBoundaries
isChunkInBoundaries(chunkX, chunkZ) ==
    chunkX >= 0 /\ chunkX < WORLD_SIZE_size /\ chunkZ >= 0 /\ chunkZ < WORLD_SIZE_size

\* World.createChunk: the anchor of chunk (x, z), then new Chunk(...)
createChunk(x, z, gen) ==
    LET halfworld == WORLD_SIZE_size \div 2
        worldX == (x - halfworld) * CHUNK_SIZE
        worldZ == (z - halfworld) * CHUNK_SIZE
    IN  NewChunk(Vec(worldX, 0, worldZ), gen)

\* World.getChunk with the cache test removed: a chunk is built on every access.
getChunk_nocache(w, x, z) ==
    Only({[world |-> [chunks |-> [w.chunks EXCEPT ![<<x, z>>] = made],
                      constructed |-> [w.constructed EXCEPT ![<<x, z>>] = @ + 1],
                      accessed |-> w.accessed \cup {<<x, z>>}],
           value |-> made] :
          made \in {createChunk(x, z, w.constructed[<<x, z>>] + 1)}})

\* World.getChunk indexing this.chunks by z alone (this.chunks[z][z]): the
\* first chunk created with a z-index stands for all of that index.
getChunk_z(w, x, z) ==
    IF \A i \in ChunkIndexes : i[2] = z => w.chunks[i] = Null
    THEN Only({[world |-> [chunks |-> [w.chunks EXCEPT ![<<x, z>>] = made],
                           constructed |-> [w.constructed EXCEPT ![<<x, z>>] = @ + 1],
                           accessed |-> w.accessed \cup {<<x, z>>}],
                value |-> made] :
               made \in {createChunk(x, z, w.constructed[<<x, z>>] + 1)}})
    ELSE Only({[world |-> [w EXCEPT !.accessed = @ \cup {<<x, z>>},
                                    !.chunks[<<x, z>>] = first],
                value |-> first] :
               first \in {w.chunks[CHOOSE i \in ChunkIndexes :
                                        i[2] = z /\ w.chunks[i] # Null]}})

\* World.getChunk: this.chunks[x][z], created if it is not there yet
getChunk(w, x, z) ==
    IF w.chunks[<<x, z>>] = Null
    THEN Only({[world |-> [chunks |-> [w.chunks EXCEPT ![<<x, z>>] = made],
                           constructed |-> [w.constructed EXCEPT ![<<x, z>>] = @ + 1],
                           accessed |-> w.accessed \cup {<<x, z>>}],
                value |-> made] :
               made \in {createChunk(x, z, w.constructed[<<x, z>>] + 1)}})
    ELSE [world |-> [w EXCEPT !.accessed = @ \cup {<<x, z>>}],
          value |-> w.chunks[<<x, z>>]]

\* World.getChunkAtPosition building the chunk anew at every call.
getChunkAtPosition_fresh(w, position) ==
    LET i == getChunkIndexes(position)
    IN  IF ~isChunkInBoundaries(i.x, i.z)
        THEN [world |-> w, value |-> Null]
        ELSE getChunk([w EXCEPT !.chunks[<<i.x, i.z>>] = Null], i.x, i.z)

\* World.getChunkAtPosition
getChunkAtPosition(w, position) ==
    LET i == getChunkIndexes(position)
    IN  IF ~isChunkInBoundaries(i.x, i.z)
        THEN [world |-> w, value |-> Null]
        ELSE getChunk(w, i.x, i.z)

\* The local index with the remainder taken once, as a truncating remainder.
blockIndexes_trunc(position) ==
    [x |-> JsRem(Floor(position.x), CHUNK_SIZE),
     y |-> Floor(position.y),
     z |-> JsRem(Floor(position.z), CHUNK_SIZE)]

\* The local indexes World.getBlockAtPosition computes (blockX, blockY, blockZ).
blockIndexes(position) ==
    [x |-> JsRem(JsRem(Floor(position.x), CHUNK_SIZE) + CHUNK_SIZE, CHUNK_SIZE),
     y |-> Floor(position.y),
     z |-> JsRem(JsRem(Floor(position.z), CHUNK_SIZE) + CHUNK_SIZE, CHUNK_SIZE)]

\* World.getBlockAtPosition
getBlockAtPosition(w, position) ==
    LET b == blockIndexes(position)
    IN  Only({IF c.value = Null
              THEN [world |-> c.world, value |-> Null]
              ELSE [world |-> c.world, value |-> getBlock(c.value, b.x, b.y, b.z)] :
              c \in {getChunkAtPosition(w, position)}})

\* World.getNearbyChunks with the radius rounded down.
nearbyIndexes_floor(position) ==
    LET i == getChunkIndexes(position)
        chunkRenderRadius == RENDER_BLOCK_DISTANCE \div CHUNK_SIZE
        side == 2 * chunkRenderRadius + 1
        at(k) == <<(i.x + ((k - 1) \div side)) - chunkRenderRadius,
                   (i.z + ((k - 1) % side)) - chunkRenderRadius>>
        visit(idx) == isChunkInBoundaries(idx[1], idx[2])
    IN  SelectSeq([k \in 1 .. side * side |-> at(k)], visit)

\* The in-bounds indexes World.getNearbyChunks visits, in the order of its loops.
nearbyIndexes(position) ==
    LET i == getChunkIndexes(position)
        chunkRenderRadius == -((-RENDER_BLOCK_DISTANCE) \div CHUNK_SIZE)  \* Math.ceil
        side == 2 * chunkRenderRadius + 1
        at(k) == <<(i.x + ((k - 1) \div side)) - chunkRenderRadius,
                   (i.z + ((k - 1) % side)) - chunkRenderRadius>>
        visit(idx) == isChunkInBoundaries(idx[1], idx[2])
    IN  SelectSeq([k \in 1 .. side * side |-> at(k)], visit)

\* World.getNearbyChunks: getChunk on each index; the world after the first n calls.
RECURSIVE worldAfter(_, _, _)
worldAfter(w, idxs, n) ==
    IF n = 0 THEN w
    ELSE Only({getChunk(v, idxs[n][1], idxs[n][2]).world :
               v \in {worldAfter(w, idxs, n - 1)}})

getNearbyChunks(w, position) ==
    Only({Only({[world |-> w2, value |-> [k \in 1 .. Len(idxs) |-> w2.chunks[idxs[k]]]] :
                w2 \in {worldAfter(w, idxs, Len(idxs))}}) :
          idxs \in {nearbyIndexes(position)}})

(***************************************************************************)
(* Chunk: visibility culling.                                              *)
(***************************************************************************)
\* The grid cells of a chunk that hold a block.
cellsOf(chunk) ==
    {c \in (DOMAIN chunk.blocks) \X (0 .. WORLD_SIZE_depth - 1) \X (0 .. CHUNK_SIZE - 1) :
        chunk.blocks[c[1]][c[2]][c[3]] # Null}

\* Chunk.isBlockExposed looking at the four neighbours of the block's level only.
isBlockExposed_flat(chunk, x, y, z) ==
    LET neighbors == <<getBlock(chunk, x - 1, y, z),
                       getBlock(chunk, x + 1, y, z),
                       getBlock(chunk, x, y, z - 1),
                       getBlock(chunk, x, y, z + 1)>>
    IN  \E k \in DOMAIN neighbors : neighbors[k] = Null

\* Chunk.isBlockExposed
isBlockExposed(chunk, x, y, z) ==
    LET neighbors == <<getBlock(chunk, x - 1, y, z),
                       getBlock(chunk, x + 1, y, z),
                       getBlock(chunk, x, y - 1, z),
                       getBlock(chunk, x, y + 1, z),
                       getBlock(chunk, x, y, z - 1),
                       getBlock(chunk, x, y, z + 1)>>
    IN  \E k \in DOMAIN neighbors : neighbors[k] = Null

\* Chunk.isBlockInRenderDistance: block.position.distanceTo(playerPosition)
\* < RENDER_BLOCK_DISTANCE + 1, both sides squared.
isBlockInRenderDistance(block, playerPosition) ==
    LET dx == block.position.x * U - playerPosition.x
        dy == block.position.y * U - playerPosition.y
        dz == block.position.z * U - playerPosition.z
        reach == (RENDER_BLOCK_DISTANCE + 1) * U
    IN  dx * dx + dy * dy + dz * dz < reach * reach

\* The camera's matrices, as 2 x 2 matrices <<a, b, c, d>> (rows a b and
\* c d): the identity, a projection, and the views of a camera turned by a
\* quarter turn and by a half turn.
Identity == <<1, 0, 0, 1>>
Projection == <<2, 0, 0, 1>>
QuarterTurn == <<0, -1, 1, 0>>
HalfTurn == <<-1, 0, 0, -1>>
Views == {Identity, QuarterTurn, HalfTurn}

\* new THREE.PerspectiveCamera(...): matrixWorldInverse is the identity until
\* the camera's world matrix is updated.
NewCamera == [projectionMatrix |-> Projection, matrixWorldInverse |-> Identity]

\* Matrix4.multiply(m): this = this x m, stored in this, which is returned.
multiply(this, m) ==
    <<this[1] * m[1] + this[2] * m[3], this[1] * m[2] + this[2] * m[4],
      this[3] * m[1] + this[4] * m[3], this[3] * m[2] + this[4] * m[4]>>

\* The camera after Chunk.updateFrustum:
\* camera.projectionMatrix.multiply(camera.matrixWorldInverse)
cameraAfterUpdateFrustum(c) ==
    [c EXCEPT !.projectionMatrix = multiply(@, c.matrixWorldInverse)]

\* The camera after the updateFrustum calls of n chunks.
RECURSIVE cameraAfter(_, _)
cameraAfter(c, n) ==
    IF n = 0 THEN c ELSE cameraAfterUpdateFrustum(cameraAfter(c, n - 1))

\* The frustums the camera can produce, each the region of block positions it
\* intersects: everything, nothing, or a half-space that cuts through a chunk.
Frustums == {"all", "none", "east", "south"}

\* Chunk.updateFrustum reads the camera on every call, and the call itself
\* changes the camera's projection matrix (multiply works in place), so the
\* chunks of one World.updateRenderedBlocks need not get the same frustum.
\* A run gives the frustum of the first chunk updated and that of the others.
FrustumRuns == {<<"all", "all">>, <<"none", "none">>, <<"east", "east">>,
                <<"south", "all">>, <<"all", "none">>}
updateFrustum(run, n) == IF n = 1 THEN run[1] ELSE run[2]

\* Chunk.isBlockInFrustrum: this.frustum.intersectsObject(block.object)
isBlockInFrustrum(fr, block) ==
    CASE fr = "all" -> TRUE
      [] fr = "east" -> block.position.x >= 1
      [] fr = "south" -> block.position.z >= 1
      [] OTHER -> FALSE

\* The test of Chunk.updateRenderedBlocks for the block in cell (x, y, z).
isRendered(chunk, x, y, z, playerPosition, fr) ==
    /\ isBlockExposed(chunk, x, y, z)
    /\ isBlockInRenderDistance(chunk.blocks[x][y][z], playerPosition)
    /\ isBlockInFrustrum(fr, chunk.blocks[x][y][z])

\* Chunk.updateRenderedBlocks without the else branch: nothing leaves the scene.
chunkUpdateRenderedBlocks_keep(sc, chunk, playerPosition, fr) ==
    Only({sc \cup {chunk.blocks[c[1]][c[2]][c[3]].position :
                    c \in {d \in cells :
                            isRendered(chunk, d[1], d[2], d[3], playerPosition, fr)}} :
          cells \in {cellsOf(chunk)}})

\* Chunk.updateRenderedBlocks on the render set sc: addToScene for the blocks
\* that pass, removeFromScene for the others.
chunkUpdateRenderedBlocks(sc, chunk, playerPosition, fr) ==
    Only({(sc \ {chunk.blocks[c[1]][c[2]][c[3]].position : c \in cells})
            \cup {chunk.blocks[c[1]][c[2]][c[3]].position :
                    c \in {d \in cells :
                            isRendered(chunk, d[1], d[2], d[3], playerPosition, fr)}} :
          cells \in {cellsOf(chunk)}})

\* Chunk.updateRenderedBlocks dropping from this.blocks the blocks it removes
\* from the scene.
blocksAfterUpdate_drop(chunk, playerPosition, fr) ==
    [x \in DOMAIN chunk.blocks |->
        [y \in DOMAIN chunk.blocks[x] |->
            [z \in DOMAIN chunk.blocks[x][y] |->
                IF chunk.blocks[x][y][z] # Null
                    /\ isRendered(chunk, x, y, z, playerPosition, fr)
                THEN chunk.blocks[x][y][z]
                ELSE Null]]]

\* this.blocks after Chunk.updateRenderedBlocks: the forEach callbacks call
\* addToScene and removeFromScene and assign to no cell and to no block.
blocksAfterUpdate(chunk, playerPosition, fr) == chunk.blocks

\* Scene.getScene().children is held as a bag of objects: the code reads the
\* array only through includes and indexOf, never its order.

\* Array.prototype.includes
includes(array, object) == BagIn(object, array)

\* THREE.Object3D.remove(object): indexOf and splice, one occurrence.
remove(array, object) == array (-) SetToBag({object})

\* THREE.Object3D.add(object): the object leaves its parent, then is pushed.
add(array, object) == remove(array, object) (+) SetToBag({object})

\* Renderable.addToScene pushing onto children without the includes test.
addToScene_push(array, object) == array (+) SetToBag({object})

\* Renderable.addToScene on Scene.getScene().children
addToScene(array, object) ==
    IF ~includes(array, object) THEN add(array, object) ELSE array

\* Renderable.removeFromScene on Scene.getScene().children
removeFromScene(array, object) ==
    IF includes(array, object) THEN remove(array, object) ELSE array

\* The objects of the blocks of a chunk.
objectsOf(chunk) ==
    {chunk.blocks[c[1]][c[2]][c[3]].position : c \in cellsOf(chunk)}

\* Scene.getScene().children after World.updateRenderedBlocks over the nearby
\* chunks, given the render set sc it yields: each block that fails the test
\* gets removeFromScene, each that passes gets addToScene, once.
childrenAfter(array, nearbyChunks, sc) ==
    Only({(array (-) SetToBag(objects \ sc))
            (+) SetToBag({object \in objects \cap sc : ~includes(array, object)}) :
          objects \in {UNION {objectsOf(nearbyChunks[k]) : k \in DOMAIN nearbyChunks}}})

\* World.updateRenderedBlocks: the render set after the first n nearby chunks.
RECURSIVE sceneAfter(_, _, _, _, _)
sceneAfter(sc, nearbyChunks, n, playerPosition, run) ==
    IF n = 0 THEN sc
    ELSE Only({chunkUpdateRenderedBlocks(v, nearbyChunks[n], playerPosition,
                                         updateFrustum(run, n)) :
               v \in {sceneAfter(sc, nearbyChunks, n - 1, playerPosition, run)}})

(***************************************************************************)
(* The operations of World, as actions.                                    *)
(***************************************************************************)
SetWorld(w) ==
    /\ chunks' = w.chunks
    /\ constructed' = w.constructed
    /\ accessed' = w.accessed

GetChunkAtPosition(position) ==
    \E r \in {getChunkAtPosition(TheWorld, position)} :
        /\ SetWorld(r.world)
        /\ result' = [op |-> "getChunkAtPosition", position |-> position,
                      value |-> r.value]
        /\ UNCHANGED <<config, camera, singletons, perlin, collidables, render, player, pc>>

GetBlockAtPosition(position) ==
    \E r \in {getBlockAtPosition(TheWorld, position)} :
        /\ SetWorld(r.world)
        /\ result' = [op |-> "getBlockAtPosition", position |-> position,
                      value |-> r.value]
        /\ UNCHANGED <<config, camera, singletons, perlin, collidables, render, player, pc>>

\* World.updateRenderedBlocks(playerPosition); run gives the frustums that
\* Chunk.updateFrustum computes from the camera, chunk after chunk.
UpdateRenderedBlocks(playerPosition, run) ==
    \E r \in {getNearbyChunks(TheWorld, playerPosition)},
       idxs \in {nearbyIndexes(playerPosition)} :
        /\ chunks' = [i \in ChunkIndexes |->
                        IF \E k \in 1 .. Len(idxs) : idxs[k] = i
                        THEN [r.world.chunks[i] EXCEPT !.blocks =
                                blocksAfterUpdate(r.world.chunks[i], playerPosition,
                                    updateFrustum(run, CHOOSE k \in 1 .. Len(idxs) :
                                                            idxs[k] = i))]
                        ELSE r.world.chunks[i]]
        /\ constructed' = r.world.constructed
        /\ accessed' = r.world.accessed
        /\ scene' = sceneAfter(scene, r.value, Len(r.value), playerPosition, run)
        /\ children' = childrenAfter(children, r.value, scene')
        /\ frustum' = [i \in ChunkIndexes |->
                        IF \E k \in 1 .. Len(idxs) : idxs[k] = i
                        THEN updateFrustum(run, CHOOSE k \in 1 .. Len(idxs) : idxs[k] = i)
                        ELSE frustum[i]]
        /\ culledAt' = [i \in ChunkIndexes |->
                        IF \E k \in 1 .. Len(idxs) : idxs[k] = i
                        THEN playerPosition
                        ELSE culledAt[i]]
        /\ camera' = cameraAfter(camera, Len(r.value))
        /\ result' = [op |-> "updateRenderedBlocks", position |-> playerPosition,
                      value |-> Null]
        /\ UNCHANGED <<config, singletons, perlin, collidables, player, pc>>

(***************************************************************************)
(* Player.  A player value p is [position, velocityY, isGrounded,          *)
(* isJumping]; every method that queries blocks returns the world too,     *)
(* because a query may create a chunk.                                     *)
(***************************************************************************)
\* The key snapshots a frame is given.
KeySnapshots == {{}, {"Space"}, {"KeyW"}, {"KeyS"}, {"KeyW", "Space"}, {"KeyA", "KeyD"}}

\* The camera's horizontal forward directions explored (x, z): -z and +z.
Forwards == {<<0, -1>>, <<0, 1>>}

\* The directions that matter to a snapshot: no movement key held, the
\* direction is never read, so one value stands for all.
ForwardsFor(keys) == IF keys \subseteq {"Space"} THEN {<<0, -1>>} ELSE Forwards

\* Player.getRightDirection: camera.up x forward, for up = (0, 1, 0).
rightOf(forward) == <<forward[2], -forward[1]>>

\* Player.getBoundingBox moved to nextPosition (getNextPositionBoundingBox):
\* the box of PLAYER_DIMENSIONS centred on nextPosition.
getNextPositionBoundingBox(nextPosition) ==
    [min |-> Vec(nextPosition.x - PLAYER_DIMENSIONS.width \div 2,
                 nextPosition.y - PLAYER_DIMENSIONS.height \div 2,
                 nextPosition.z - PLAYER_DIMENSIONS.length \div 2),
     max |-> Vec(nextPosition.x + PLAYER_DIMENSIONS.width \div 2,
                 nextPosition.y + PLAYER_DIMENSIONS.height \div 2,
                 nextPosition.z + PLAYER_DIMENSIONS.length \div 2)]

\* Player.isBelowBedrock
isBelowBedrock(position) == position.y <= PLAYER_VERTICAL_OFFSET

\* The block positions Player.getAllCollidingBlocks visits, in loop order
\* (x outermost, then y, then z).
collidingPositions(box) ==
    LET minX == Round(box.min.x)
        maxX == Round(box.max.x)
        minY == Floor(box.min.y)
        maxY == Ceil(box.max.y)
        minZ == Round(box.min.z)
        maxZ == Round(box.max.z)
        nx == maxX - minX + 1
        ny == maxY - minY + 1
        nz == maxZ - minZ + 1
    IN  [k \in 1 .. nx * ny * nz |->
            Vec(minX + (k - 1) \div (ny * nz),
                minY + (((k - 1) \div nz) % ny),
                minZ + ((k - 1) % nz))]

\* Player.getBlockAt: the world is asked about a position in whole blocks.
getBlockAt(w, blockPosition) ==
    getBlockAtPosition(w, Vec(blockPosition.x * U, blockPosition.y * U, blockPosition.z * U))

RECURSIVE worldAfterQueries(_, _, _)
worldAfterQueries(w, ps, n) ==
    IF n = 0 THEN w
    ELSE Only({getBlockAt(v, ps[n]).world : v \in {worldAfterQueries(w, ps, n - 1)}})

\* Player.getAllCollidingBlocks
getAllCollidingBlocks(w, box) ==
    Only({Only({[world |-> w2,
                 value |-> SelectSeq([k \in 1 .. Len(ps) |-> getBlockAt(w2, ps[k]).value],
                                     LAMBDA b : b # Null)] :
                w2 \in {worldAfterQueries(w, ps, Len(ps))}}) :
          ps \in {collidingPositions(box)}})

\* Player.handleBoundariesCollision testing the lower sides only.
handleBoundariesCollision_low(nextPosition) ==
    LET nextBoundingBox == getNextPositionBoundingBox(nextPosition)
        worldSize == WORLD_SIZE_size * CHUNK_SIZE * U
        minX == -(worldSize \div 2) - BLOCK_SIZE \div 2
        minZ == -(worldSize \div 2) - BLOCK_SIZE \div 2
    IN  \/ nextBoundingBox.min.x < minX
        \/ nextBoundingBox.min.z < minZ

\* Player.handleBoundariesCollision
handleBoundariesCollision(nextPosition) ==
    LET nextBoundingBox == getNextPositionBoundingBox(nextPosition)
        worldSize == WORLD_SIZE_size * CHUNK_SIZE * U
        minX == -(worldSize \div 2) - BLOCK_SIZE \div 2
        maxX == worldSize \div 2 - BLOCK_SIZE \div 2
        minZ == -(worldSize \div 2) - BLOCK_SIZE \div 2
        maxZ == worldSize \div 2 - BLOCK_SIZE \div 2
    IN  \/ nextBoundingBox.min.x < minX
        \/ nextBoundingBox.max.x > maxX
        \/ nextBoundingBox.min.z < minZ
        \/ nextBoundingBox.max.z > maxZ

\* Player.handleDirectionalCollision comparing with the box's top face.
handleDirectionalCollision_top(w, nextPosition) ==
    LET nextBoundingBox == getNextPositionBoundingBox(nextPosition)
        sideCollidingBlocks(blocks) ==
            SelectSeq(blocks, LAMBDA b : b.position.y * U > nextBoundingBox.max.y)
    IN  Only({[world |-> all.world, value |-> Len(sideCollidingBlocks(all.value)) > 0] :
              all \in {getAllCollidingBlocks(w, nextBoundingBox)}})

\* Player.handleDirectionalCollision
handleDirectionalCollision(w, nextPosition) ==
    LET nextBoundingBox == getNextPositionBoundingBox(nextPosition)
        sideCollidingBlocks(blocks) ==
            SelectSeq(blocks, LAMBDA b : b.position.y * U > nextBoundingBox.min.y)
    IN  Only({[world |-> all.world, value |-> Len(sideCollidingBlocks(all.value)) > 0] :
              all \in {getAllCollidingBlocks(w, nextBoundingBox)}})

\* Player.moveDirection(direction, multiplier)
moveDirection(s, direction, multiplier) ==
    LET p == s.player
        nextPosition == Vec(p.position.x + direction[1] * PLAYER_BASE_SPEED * multiplier,
                            p.position.y,
                            p.position.z + direction[2] * PLAYER_BASE_SPEED * multiplier)
    IN  IF handleBoundariesCollision(nextPosition) THEN s
        ELSE Only({IF isColliding.value THEN [s EXCEPT !.world = isColliding.world]
                   ELSE [player |-> [p EXCEPT !.position = nextPosition],
                         world |-> isColliding.world] :
                   isColliding \in {handleDirectionalCollision(s.world, nextPosition)}})

\* Player.jump without its guard.
jump_always(p) ==
    [p EXCEPT !.velocityY = JUMP_VELOCITY, !.isGrounded = FALSE, !.isJumping = TRUE]

\* Player.jump
jump(p) ==
    IF ~p.isGrounded \/ p.isJumping THEN p
    ELSE [p EXCEPT !.velocityY = JUMP_VELOCITY, !.isGrounded = FALSE, !.isJumping = TRUE]

\* The moves of Player.handleKeyInputs, in its order: A, D, W, S.
movesOf(s, keys, forward) ==
    LET right == rightOf(forward)
    IN  Only({IF "KeyS" \in keys THEN moveDirection(f, forward, -1) ELSE f :
              f \in {IF "KeyW" \in keys THEN moveDirection(d, forward, 1) ELSE d :
                     d \in {IF "KeyD" \in keys THEN moveDirection(a, right, -1) ELSE a :
                            a \in {IF "KeyA" \in keys THEN moveDirection(s, right, 1)
                                   ELSE s}}}})

\* Player.handleKeyInputs calling jump() whatever keys['Space'] holds.
handleKeyInputs_jump(s, keys, forward) ==
    Only({[m EXCEPT !.player = jump(m.player)] : m \in {movesOf(s, keys, forward)}})

\* Player.handleKeyInputs
handleKeyInputs(s, keys, forward) ==
    Only({IF "Space" \in keys THEN [m EXCEPT !.player = jump(m.player)] ELSE m :
          m \in {movesOf(s, keys, forward)}})

\* Player.updateGroundedState
updateGroundedState(s) ==
    LET p == s.player
        nextBoundingBox == getNextPositionBoundingBox(p.position)
        blocksBelow(blocks) ==
            SelectSeq(blocks, LAMBDA b : b.position.y = Floor(nextBoundingBox.min.y))
    IN  Only({[player |-> [p EXCEPT !.isGrounded =
                            Len(blocksBelow(all.value)) > 0 \/ isBelowBedrock(p.position)],
               world |-> all.world] :
              all \in {getAllCollidingBlocks(s.world, nextBoundingBox)}})

\* Player.handleFall
handleFall(p) ==
    [p EXCEPT !.isGrounded = FALSE, !.position.y = @ + p.velocityY]

\* Player.handleHitBedrock without the snap to the floor offset.
handleHitBedrock_nosnap(p) ==
    [p EXCEPT !.isGrounded = TRUE, !.velocityY = 0, !.isJumping = FALSE]

\* Player.handleHitBedrock
handleHitBedrock(p) ==
    [p EXCEPT !.isGrounded = TRUE, !.velocityY = 0, !.isJumping = FALSE,
              !.position.y = PLAYER_VERTICAL_OFFSET]

\* Player.handleHitBlockBelow without the reset of isJumping.
handleHitBlockBelow_jumping(p, block) ==
    [p EXCEPT !.isGrounded = TRUE, !.velocityY = 0,
              !.position.y = block.position.y * U + U + PLAYER_VERTICAL_OFFSET]

\* Player.handleHitBlockBelow resting on the block's own level.
handleHitBlockBelow_low(p, block) ==
    [p EXCEPT !.isGrounded = TRUE, !.velocityY = 0, !.isJumping = FALSE,
              !.position.y = block.position.y * U + PLAYER_VERTICAL_OFFSET]

\* Player.handleHitBlockBelow
handleHitBlockBelow(p, block) ==
    [p EXCEPT !.isGrounded = TRUE, !.velocityY = 0, !.isJumping = FALSE,
              !.position.y = block.position.y * U + U + PLAYER_VERTICAL_OFFSET]

\* Player.handleGroundCollision
handleGroundCollision(s) ==
    LET p == s.player
        nextPosition == [p.position EXCEPT !.y = @ + p.velocityY]
        nextBoundingBox == getNextPositionBoundingBox(nextPosition)
        belowCollidingBlocks(blocks) ==
            SelectSeq(blocks, LAMBDA b : b.position.y * U < nextBoundingBox.min.y)
    IN  IF p.velocityY > 0 THEN [s EXCEPT !.player = handleFall(p)]
        ELSE IF isBelowBedrock(nextPosition) THEN [s EXCEPT !.player = handleHitBedrock(p)]
        ELSE Only({Only({IF Len(below) = 0
                         THEN [player |-> handleFall(p), world |-> all.world]
                         ELSE [player |-> handleHitBlockBelow(p, below[1]),
                               world |-> all.world] :
                         below \in {belowCollidingBlocks(all.value)}}) :
                   all \in {getAllCollidingBlocks(s.world, nextBoundingBox)}})

\* Player.applyGravity without the acceleration.
fallVelocity_still(velocityY) ==
    IF velocityY > MAX_VELOCITY THEN MAX_VELOCITY ELSE velocityY

\* The velocity Player.applyGravity hands to handleGroundCollision.
fallVelocity(velocityY) ==
    IF velocityY + GRAVITY > MAX_VELOCITY THEN MAX_VELOCITY ELSE velocityY + GRAVITY

\* Player.applyGravity
applyGravity(s) ==
    LET p == s.player
    IN  IF p.isGrounded /\ ~p.isJumping
        THEN [s EXCEPT !.player.velocityY = 0]
        ELSE Only({handleGroundCollision(t) :
                   t \in {[s EXCEPT !.player.velocityY = fallVelocity(p.velocityY)]}})

\* Player.move: handleKeyInputs(), updateGroundedState(), applyGravity()
move(s, keys, forward) ==
    applyGravity(updateGroundedState(handleKeyInputs(s, keys, forward)))

(***************************************************************************)
(* The frame: Player.move() runs handleKeyInputs, updateGroundedState and  *)
(* applyGravity in this order; pc is the position inside it.  Key and      *)
(* mouse events are handled between frames only, so the key snapshot and   *)
(* the camera direction a frame sees are inputs of its first step.         *)
(***************************************************************************)
MaxSteps == 3       \* how far from the spawn the inputs may walk the player, in moves

ThePlayer == [player |-> player, world |-> TheWorld]

withinReach(position) ==
    LET dx == position.x - PLAYER_SPAWN_POSITION.x
        dz == position.z - PLAYER_SPAWN_POSITION.z
        reach == MaxSteps * PLAYER_BASE_SPEED
    IN  dx <= reach /\ -dx <= reach /\ dz <= reach /\ -dz <= reach

\* The keys Player.handleKeyInputs turns into a move.
MoveKeys == {"KeyA", "KeyD", "KeyW", "KeyS"}

\* direction * multiplier of the move a key asks for (x, z).
moveOf(key, forward) ==
    LET right == rightOf(forward)
    IN  CASE key = "KeyA" -> right
          [] key = "KeyD" -> <<-right[1], -right[2]>>
          [] key = "KeyW" -> forward
          [] key = "KeyS" -> <<-forward[1], -forward[2]>>

\* nextPosition of Player.moveDirection when the snapshot holds one move key,
\* Null otherwise: what the frame's only move asked for.
loneCandidate(position, keys, forward) ==
    IF Cardinality(keys \cap MoveKeys) # 1 THEN Null
    ELSE Only({Vec(position.x + d[1] * PLAYER_BASE_SPEED, position.y,
                   position.z + d[2] * PLAYER_BASE_SPEED) :
               d \in {moveOf(Only(keys \cap MoveKeys), forward)}})

HandleKeyInputs(keys, forward) ==
    \E s \in {handleKeyInputs(t, keys, forward) : t \in {ThePlayer}} :
        /\ pc = "idle"
        /\ player' = s.player
        /\ SetWorld(s.world)
        /\ pc' = "keysDone"
        /\ result' = [op |-> "handleKeyInputs", jump |-> "Space" \in keys,
                      candidate |-> loneCandidate(player.position, keys, forward)]
        /\ UNCHANGED <<config, camera, singletons, perlin, collidables, render>>

UpdateGroundedState ==
    \E s \in {updateGroundedState(t) : t \in {ThePlayer}} :
        /\ pc = "keysDone"
        /\ player' = s.player
        /\ SetWorld(s.world)
        /\ pc' = "groundDone"
        /\ result' = [op |-> "updateGroundedState"]
        /\ UNCHANGED <<config, camera, singletons, perlin, collidables, render>>

ApplyGravity ==
    \E s \in {applyGravity(t) : t \in {ThePlayer}} :
        /\ pc = "groundDone"
        /\ player' = s.player
        /\ SetWorld(s.world)
        /\ pc' = "idle"
        /\ result' = [op |-> "applyGravity"]
        /\ UNCHANGED <<config, camera, singletons, perlin, collidables, render>>

(***************************************************************************)
(* Collidable: an object with a position and a bounding box.  Coordinates  *)
(* are in tenths (COLLIDABLE_UNIT per 1.0).  The objects are the two unit  *)
(* cubes of the Collidable tests: Mesh(BoxGeometry(1, 1, 1)).              *)
(***************************************************************************)
COLLIDABLE_UNIT == 10         \* Collidable coordinates: units per 1.0
BOX_GEOMETRY_SIZE == 1        \* new BoxGeometry(1, 1, 1)
Collidables == {1, 2}

\* The positions the objects are moved to and the points asked about.
CollidablePositions ==
    {Vec(0, 0, 0), Vec(5, 5, 5), Vec(10, 0, 0), Vec(11, 0, 0), Vec(100, 100, 100)}
CollidablePoints == {Vec(2, 2, 2), Vec(20, 20, 20), Vec(10, 0, 0), Vec(98, 98, 98)}

\* The half-extent of the object's geometry on every axis.
halfExtent == (BOX_GEOMETRY_SIZE * COLLIDABLE_UNIT) \div 2

\* new Box3().setFromObject(object), for an object at `position`.
setFromObject(position) ==
    [min |-> Vec(position.x - halfExtent, position.y - halfExtent,
                 position.z - halfExtent),
     max |-> Vec(position.x + halfExtent, position.y + halfExtent,
                 position.z + halfExtent)]

\* THREE.Box3.containsPoint
containsPoint(box, point) ==
    ~(\/ point.x < box.min.x \/ point.x > box.max.x
      \/ point.y < box.min.y \/ point.y > box.max.y
      \/ point.z < box.min.z \/ point.z > box.max.z)

\* THREE.Box3.intersectsBox
intersectsBox(a, b) ==
    ~(\/ b.max.x < a.min.x \/ b.min.x > a.max.x
      \/ b.max.y < a.min.y \/ b.min.y > a.max.y
      \/ b.max.z < a.min.z \/ b.min.z > a.max.z)

\* new Collidable(position, object)
NewCollidable(position) ==
    [position |-> position, boundingBox |-> setFromObject(position)]

\* Collidable.updateBoundingBox
updateBoundingBox(c) == [c EXCEPT !.boundingBox = setFromObject(c.position)]

\* set position(newPosition)
setPosition(c, newPosition) ==
    updateBoundingBox([c EXCEPT !.position = newPosition])

\* Collidable.checkPointCollision
checkPointCollision(c, position) == containsPoint(c.boundingBox, position)

\* Collidable.checkObjectCollision without the two updateBoundingBox() calls.
checkObjectCollision_stale(c, collidable) ==
    [this |-> c, collidable |-> collidable,
     value |-> intersectsBox(c.boundingBox, collidable.boundingBox)]

\* Collidable.checkObjectCollision: both boxes are refreshed, then compared.
checkObjectCollision(c, collidable) ==
    [this |-> updateBoundingBox(c),
     collidable |-> updateBoundingBox(collidable),
     value |-> intersectsBox(updateBoundingBox(c).boundingBox,
                             updateBoundingBox(collidable).boundingBox)]

(***************************************************************************)
(* The singletons Scene, Camera and Renderer.  The static fields of a      *)
(* class are [instance, object]: #instance, and #scene, #camera or         *)
(* #renderer; an object is named by the number of its construction, 0      *)
(* standing for null and for a field never assigned.  The ghosts           *)
(* constructed and made count the constructor calls of the class and of    *)
(* the THREE object it wraps.                                              *)
(***************************************************************************)
MaxScenes == 3      \* how many THREE.Scene objects the resets explored may build

SingletonClasses == {"Scene", "Camera", "Renderer"}

\* The static fields when the module is loaded.
Loaded ==
    [c \in SingletonClasses |->
        [instance |-> 0, object |-> 0, constructed |-> 0, made |-> 0]]

\* getInstance constructing the class at every call.
getInstance_new(s) ==
    Only({[singleton |-> built, value |-> built.instance] :
          built \in {[instance |-> s.constructed + 1, object |-> s.made + 1,
                       constructed |-> s.constructed + 1, made |-> s.made + 1]}})

\* Scene.getInstance, Camera.getInstance, Renderer.getInstance: the private
\* constructor runs when #instance is null and builds the THREE object.
getInstance(s) ==
    IF s.instance = 0
    THEN Only({[singleton |-> built, value |-> built.instance] :
               built \in {[instance |-> s.constructed + 1, object |-> s.made + 1,
                            constructed |-> s.constructed + 1, made |-> s.made + 1]}})
    ELSE [singleton |-> s, value |-> s.instance]

\* Scene.getScene, Camera.getCamera, Renderer.getRenderer:
\* return X.getInstance(), X.#object
getObject(s) ==
    Only({[singleton |-> r.singleton, value |-> r.singleton.object] :
          r \in {getInstance(s)}})

\* Scene.reset: Scene.#scene.clear() throws when #scene was never assigned;
\* otherwise #scene becomes a new THREE.Scene.
reset(s) ==
    IF s.object = 0
    THEN [singleton |-> s, value |-> [type |-> "TypeError"]]
    ELSE [singleton |-> [s EXCEPT !.object = s.made + 1, !.made = s.made + 1],
          value |-> Null]

\* The static fields once main has called getInstance of every class, as it
\* does to build the World and the Player.
Started == [c \in SingletonClasses |-> getInstance(Loaded[c]).singleton]

(***************************************************************************)
(* Initial states and specifications.                                      *)
(***************************************************************************)
\* new World(scene, seed) and new Player(scene, camera, world)
ConstructedWith(spawn, generators, instances) ==
    /\ chunks = [i \in ChunkIndexes |-> Null]
    /\ constructed = [i \in ChunkIndexes |-> 0]
    /\ accessed = {}
    /\ result = [op |-> "none"]
    /\ scene = {}
    /\ children = EmptyBag
    /\ singletons = instances
    /\ camera = NewCamera
    /\ frustum = [i \in ChunkIndexes |-> "initial"]
    /\ culledAt = [i \in ChunkIndexes |-> Null]
    /\ player = [position |-> spawn, velocityY |-> 0,
                 isGrounded |-> FALSE, isJumping |-> FALSE]
    /\ pc = "idle"
    /\ perlin = generators
    /\ collidables = [c \in Collidables |->
                        NewCollidable(IF c = 1 THEN Vec(0, 0, 0) ELSE Vec(5, 5, 5))]

\* The world's generators are built with the world's seed.
ConstructedAt(spawn) ==
    ConstructedWith(spawn, [g \in NoiseGenerators |-> NewPerlinNoise(seed)],
                    Started)

Constructed == ConstructedAt(PLAYER_SPAWN_POSITION)

Init ==
    /\ CHUNK_SIZE \in ChunkSizes
    /\ SEA_LEVEL \in SeaLevels
    /\ seed \in Seeds
    /\ Constructed

\* One terrain is enough where the claims are about chunks and coordinates.
InitWorld ==
    /\ CHUNK_SIZE \in ChunkSizes
    /\ SEA_LEVEL = WORLD_SIZE_depth \div 2
    /\ seed = 0
    /\ Constructed

\* The classes as loaded, before any getInstance.
InitSingleton ==
    /\ CHUNK_SIZE = 2 /\ SEA_LEVEL = 0 /\ seed = 0
    /\ ConstructedWith(PLAYER_SPAWN_POSITION,
                       [g \in NoiseGenerators |-> NewPerlinNoise(seed)], Loaded)

\* The shipped chunk size under dry land.
InitScene ==
    /\ CHUNK_SIZE = 2 /\ SEA_LEVEL = 0 /\ seed = 1
    /\ Constructed

\* The two unit cubes of the Collidable tests.
InitCollidable ==
    /\ CHUNK_SIZE = 2 /\ SEA_LEVEL = 0 /\ seed = 0
    /\ Constructed

\* One chunk size, under a sea and under dry land.
InitTerrain ==
    /\ CHUNK_SIZE = 2
    /\ SEA_LEVEL \in SeaLevels
    /\ seed = 0
    /\ Constructed

\* A chunk size with inner blocks under a sea, and the shipped chunk size
\* under dry land.
InitRender ==
    /\ \/ CHUNK_SIZE = 3 /\ SEA_LEVEL = WORLD_SIZE_depth \div 2 /\ seed = 0
       \/ CHUNK_SIZE = 2 /\ SEA_LEVEL = 0 /\ seed = 1
    /\ Constructed

\* The shipped chunk size and two terrains around the spawn: a flat sea and
\* a ledge.
InitPlayer ==
    /\ CHUNK_SIZE = 2
    /\ \/ SEA_LEVEL = WORLD_SIZE_depth \div 2 /\ seed = 0
       \/ SEA_LEVEL = 0 /\ seed = 1
    /\ Constructed

\* The shipped chunk size under a sea that levels a lane from the spawn to
\* the world's edge: along +z for one seed, along x for the other.
\* Two generators, each built with a seed of its own.
InitNoise ==
    /\ CHUNK_SIZE = 2 /\ SEA_LEVEL = 0 /\ seed = 0
    /\ \E seeds \in NoiseSeeds :
        ConstructedWith(PLAYER_SPAWN_POSITION,
                        [g \in NoiseGenerators |-> NewPerlinNoise(seeds[g])],
                        Started)

\* One generator per seed sampled on hundredths.
InitFine ==
    /\ CHUNK_SIZE = 2 /\ SEA_LEVEL = 0 /\ seed = 0
    /\ \E s \in FineSeeds :
        ConstructedWith(PLAYER_SPAWN_POSITION,
                        [g \in NoiseGenerators |-> NewPerlinNoise(s)], Started)

InitBoundary ==
    /\ CHUNK_SIZE = 2
    /\ SEA_LEVEL = WORLD_SIZE_depth \div 2
    /\ seed \in {0, 3}
    /\ Constructed

\* Dry land, with the player spawned over it or outside the grid.
InitFloor ==
    /\ CHUNK_SIZE = 2
    /\ SEA_LEVEL = 0
    /\ seed = 1
    /\ ConstructedAt(PLAYER_SPAWN_POSITION) \/ ConstructedAt(PLAYER_SPAWN_OUTSIDE)

\* The positions the world is asked about: negative, fractional, on chunk
\* borders, and outside the grid on both sides.
QueryXs == {-130, -81, -80, -45, -1, 0, 25, 79, 80, 119, 120}
QueryYs == {-1, 0, 35, 79, 80}
QueryZs == {-130, -15, 120}
QueryPositions ==
    {Vec(x, 35, -15) : x \in QueryXs}
        \cup {Vec(x, y, -15) : x \in {-45, 25}, y \in QueryYs}
        \cup {Vec(x, 35, z) : x \in {-45, 25}, z \in QueryZs}

RenderPositions == {Vec(0, 5 * U, 0), Vec(-25, 70, 10), Vec(70, 30, -130)}

\* generator g: noise(x, y), for (x, y) in quarters.
Noise(g, x, y) ==
    /\ pc = "idle"
    /\ \E r \in {noise(perlin[g], x, y)} :
        /\ perlin' = [perlin EXCEPT ![g] = r.perlin]
        /\ result' = [op |-> "noise", generator |-> g, x |-> x, y |-> y,
                      value |-> r.value,
                      cached |-> DOMAIN perlin[g].gradients]
    /\ UNCHANGED <<config, camera, singletons, collidables, chunks, constructed, accessed, render, player>>
    /\ UNCHANGED pc

NextNoise ==
    \E g \in NoiseGenerators, p \in NoisePoints : Noise(g, p[1], p[2])

\* camera.updateMatrixWorld(), as the renderer calls it once the player has
\* turned the camera: matrixWorldInverse becomes the inverse of the camera's
\* world matrix.
UpdateMatrixWorld(view) ==
    /\ pc = "idle"
    /\ camera' = [camera EXCEPT !.matrixWorldInverse = view]
    /\ result' = [op |-> "updateMatrixWorld"]
    /\ UNCHANGED <<config, singletons, perlin, collidables, chunks, constructed,
                   accessed, render, player, pc>>

\* The camera turned, and the visibility update around the spawn and at the
\* grid's edge.
NextCamera ==
    \/ \E view \in Views : UpdateMatrixWorld(view)
    \/ \E playerPosition \in {Vec(0, 5 * U, 0), Vec(70, 30, -130)},
          run \in {<<"all", "all">>, <<"east", "east">>, <<"south", "all">>} :
            UpdateRenderedBlocks(playerPosition, run)

\* The world sizes a configuration can give WORLD_SIZE.size: odd and even.
WorldSizes == {3, 4, 5}

\* World.getChunkIndexes under WORLD_SIZE.size = size
getChunkIndexesIn(size, position) ==
    LET halfWorldSize == size \div 2
    IN  [x |-> FloorDiv(position.x, CHUNK_SIZE) + halfWorldSize,
         z |-> FloorDiv(position.z, CHUNK_SIZE) + halfWorldSize]

\* World.isChunkInBoundaries under WORLD_SIZE.size = size
isChunkInBoundariesIn(size, chunkX, chunkZ) ==
    chunkX >= 0 /\ chunkX < size /\ chunkZ >= 0 /\ chunkZ < size

\* World.createChunk under WORLD_SIZE.size = size: the anchor of chunk (x, z)
chunkPositionIn(size, x, z) ==
    LET halfworld == size \div 2
        worldX == (x - halfworld) * CHUNK_SIZE
        worldZ == (z - halfworld) * CHUNK_SIZE
    IN  Vec(worldX, 0, worldZ)

\* Player.handleBoundariesCollision under WORLD_SIZE.size = size; worldSize / 2
\* is exact in position units.
handleBoundariesCollisionIn(size, nextPosition) ==
    LET nextBoundingBox == getNextPositionBoundingBox(nextPosition)
        worldSize == size * CHUNK_SIZE * U
        minX == -(worldSize \div 2) - BLOCK_SIZE \div 2
        maxX == worldSize \div 2 - BLOCK_SIZE \div 2
        minZ == -(worldSize \div 2) - BLOCK_SIZE \div 2
        maxZ == worldSize \div 2 - BLOCK_SIZE \div 2
    IN  \/ nextBoundingBox.min.x < minX
        \/ nextBoundingBox.max.x > maxX
        \/ nextBoundingBox.min.z < minZ
        \/ nextBoundingBox.max.z > maxZ

\* The boundary check of a candidate position in a world of the given size.
HandleBoundariesCollision(size, nextPosition) ==
    /\ pc = "idle"
    /\ result' = [op |-> "handleBoundariesCollision", size |-> size,
                  position |-> nextPosition,
                  value |-> handleBoundariesCollisionIn(size, nextPosition)]
    /\ UNCHANGED <<config, camera, singletons, perlin, collidables, chunks,
                   constructed, accessed, render, player, pc>>

\* Quarter blocks from beyond one edge of the largest world to beyond the
\* other.
ProbeRange == -36 .. 36

\* Candidate positions in quarter blocks along x, along z and along the
\* diagonal.
NextWorldSize ==
    \E size \in WorldSizes, k \in ProbeRange, axes \in {<<1, 0>>, <<0, 1>>, <<1, 1>>} :
        HandleBoundariesCollision(size, Vec(axes[1] * k * (U \div 4), 5 * U,
                                            axes[2] * k * (U \div 4)))

NextLattice ==
    \E g \in NoiseGenerators, p \in LatticePoints : Noise(g, p[1], p[2])

\* generator g: noise(x / scale, y / scale) and then the noise one step of
\* 1 / scale away, (dx, dy) being (1, 0) or (0, 1).
NoiseStep(g, x, y, dx, dy) ==
    /\ pc = "idle"
    /\ \E first \in {noiseFine(perlin[g], x, y)} :
        \E second \in {noiseFine(first.perlin, x + dx, y + dy)} :
            /\ perlin' = [perlin EXCEPT ![g] = second.perlin]
            /\ result' = [op |-> "noiseStep", generator |-> g, x |-> x, y |-> y,
                          dx |-> dx, dy |-> dy,
                          first |-> first.value, second |-> second.value]
    /\ UNCHANGED <<config, camera, singletons, collidables, chunks, constructed, accessed,
                   render, player, pc>>

NextFine ==
    \E p \in FinePoints, d \in FineSteps : NoiseStep(1, p[1], p[2], d[1], d[2])

\* collidable.position = newPosition
SetPosition(c, newPosition) ==
    /\ pc = "idle"
    /\ collidables' = [collidables EXCEPT ![c] = setPosition(@, newPosition)]
    /\ result' = [op |-> "setPosition", collidable |-> c]
    /\ UNCHANGED <<config, camera, singletons, perlin, chunks, constructed, accessed, render, player, pc>>

\* A write through the reference the position getter returns, as in
\* Player.handleFall: this.position.y += this.velocityY
MutatePosition(c, newPosition) ==
    /\ pc = "idle"
    /\ collidables' = [collidables EXCEPT ![c].position = newPosition]
    /\ result' = [op |-> "mutatePosition", collidable |-> c]
    /\ UNCHANGED <<config, camera, singletons, perlin, chunks, constructed, accessed, render, player, pc>>

\* collidable.checkPointCollision(position)
CheckPointCollision(c, position) ==
    /\ pc = "idle"
    /\ result' = [op |-> "checkPointCollision", collidable |-> c,
                  position |-> position,
                  value |-> checkPointCollision(collidables[c], position)]
    /\ UNCHANGED <<config, camera, singletons, perlin, chunks, constructed, accessed, render, player, pc>>
    /\ UNCHANGED collidables

\* a.checkObjectCollision(b)
CheckObjectCollision(a, b) ==
    /\ pc = "idle"
    /\ \E r \in {checkObjectCollision(collidables[a], collidables[b])} :
        /\ collidables' = [collidables EXCEPT ![a] = r.this, ![b] = r.collidable]
        /\ result' = [op |-> "checkObjectCollision", collidable |-> a,
                      other |-> b, value |-> r.value]
    /\ UNCHANGED <<config, camera, singletons, perlin, chunks, constructed, accessed, render, player, pc>>

NextCollidable ==
    \/ \E c \in Collidables, p \in CollidablePositions : SetPosition(c, p)
    \/ \E c \in Collidables, p \in CollidablePositions : MutatePosition(c, p)
    \/ \E c \in Collidables, p \in CollidablePoints : CheckPointCollision(c, p)
    \/ \E a, b \in Collidables : a # b /\ CheckObjectCollision(a, b)

\* The blocks addToScene and removeFromScene are called on directly.
SceneObjects == {Vec(0, 0, 0), Vec(0, 1, 0), Vec(-1, 0, 0)}

\* The objects of the blocks of the existing chunks.
existingObjects ==
    UNION {objectsOf(chunks[i]) : i \in {j \in ChunkIndexes : chunks[j] # Null}}

\* block.addToScene()
AddToScene(object) ==
    /\ pc = "idle"
    /\ object \in existingObjects
    /\ children' = addToScene(children, object)
    /\ scene' = BagToSet(children')
    /\ result' = [op |-> "addToScene", object |-> object, children |-> children]
    /\ UNCHANGED <<config, camera, singletons, perlin, collidables, chunks, constructed, accessed,
                   frustum, culledAt, player, pc>>

\* block.removeFromScene()
RemoveFromScene(object) ==
    /\ pc = "idle"
    /\ object \in existingObjects
    /\ children' = removeFromScene(children, object)
    /\ scene' = BagToSet(children')
    /\ result' = [op |-> "removeFromScene", object |-> object, children |-> children]
    /\ UNCHANGED <<config, camera, singletons, perlin, collidables, chunks, constructed, accessed,
                   frustum, culledAt, player, pc>>

NextScene ==
    \/ \E playerPosition \in {Vec(0, 5 * U, 0), Vec(-25, 70, 10)},
          run \in {<<"all", "all">>, <<"east", "east">>, <<"south", "all">>} :
            UpdateRenderedBlocks(playerPosition, run)
    \/ \E object \in SceneObjects : AddToScene(object)
    \/ \E object \in SceneObjects : RemoveFromScene(object)

\* BlockFactory.createBlock(type, position)
CreateBlock(type, position) ==
    /\ pc = "idle"
    /\ result' = [op |-> "createBlock", type |-> type, position |-> position,
                  value |-> createBlock(type, position)]
    /\ UNCHANGED <<config, camera, singletons, perlin, collidables, chunks, constructed, accessed,
                   render, player, pc>>

NextFactory ==
    \E type \in BlockTypes \cup OtherTypes,
       x \in -2 .. 2, y \in 0 .. WORLD_SIZE_depth - 1 :
        CreateBlock(type, Vec(x, y, 0))

\* Scene.getInstance(), Camera.getInstance(), Renderer.getInstance()
GetInstance(class) ==
    /\ pc = "idle"
    /\ \E r \in {getInstance(singletons[class])} :
        /\ singletons' = [singletons EXCEPT ![class] = r.singleton]
        /\ result' = [op |-> "getInstance", class |-> class, value |-> r.value,
                      before |-> singletons[class]]
    /\ UNCHANGED <<config, camera, perlin, collidables, chunks, constructed, accessed,
                   render, player, pc>>

\* Scene.getScene(), Camera.getCamera(), Renderer.getRenderer()
GetObject(class) ==
    /\ pc = "idle"
    /\ \E r \in {getObject(singletons[class])} :
        /\ singletons' = [singletons EXCEPT ![class] = r.singleton]
        /\ result' = [op |-> "getObject", class |-> class, value |-> r.value,
                      before |-> singletons[class]]
    /\ UNCHANGED <<config, camera, perlin, collidables, chunks, constructed, accessed,
                   render, player, pc>>

\* Scene.reset(): the scene is cleared of its children and replaced.
Reset ==
    /\ pc = "idle"
    /\ singletons["Scene"].made < MaxScenes
    /\ \E r \in {reset(singletons["Scene"])} :
        /\ singletons' = [singletons EXCEPT !["Scene"] = r.singleton]
        /\ result' = [op |-> "reset", class |-> "Scene", value |-> r.value,
                      before |-> singletons["Scene"]]
        /\ IF r.value = Null
           THEN scene' = {} /\ children' = EmptyBag
           ELSE UNCHANGED <<scene, children>>
    /\ UNCHANGED <<config, camera, perlin, collidables, chunks, constructed, accessed,
                   frustum, culledAt, player, pc>>

NextSingleton ==
    \/ \E class \in SingletonClasses : GetInstance(class)
    \/ \E class \in SingletonClasses : GetObject(class)
    \/ Reset

NextWorld ==
    \/ \E position \in QueryPositions : GetChunkAtPosition(position)
    \/ \E position \in QueryPositions : GetBlockAtPosition(position)
    \/ UpdateRenderedBlocks(PLAYER_SPAWN_POSITION, <<"all", "all">>)

NextRender ==
    \E playerPosition \in RenderPositions, run \in FrustumRuns :
        UpdateRenderedBlocks(playerPosition, run)

NextPlayer ==
    \/ \E keys \in KeySnapshots : \E forward \in ForwardsFor(keys) :
            HandleKeyInputs(keys, forward) /\ withinReach(player'.position)
    \/ UpdateGroundedState
    \/ ApplyGravity

\* The lanes of the boundary walks: the two axes through the spawn.
alongAxis(position) ==
    position.x = PLAYER_SPAWN_POSITION.x \/ position.z = PLAYER_SPAWN_POSITION.z

\* One move key a frame, any distance from the spawn.
NextBoundary ==
    \/ \E keys \in {{"KeyW"}, {"KeyA"}, {"KeyD"}} : \E forward \in Forwards :
            HandleKeyInputs(keys, forward) /\ alongAxis(player'.position)
    \/ UpdateGroundedState
    \/ ApplyGravity

\* The frames of NextPlayer, and every frame that leaves the player in place.
NextFloor ==
    \/ \E keys \in KeySnapshots : \E forward \in ForwardsFor(keys) :
            /\ HandleKeyInputs(keys, forward)
            /\ withinReach(player'.position) \/ player'.position = player.position
    \/ UpdateGroundedState
    \/ ApplyGravity

\* Renderer.getRenderer().render(Scene.getScene(), Camera.getCamera()): the
\* scene as it stands is handed to the renderer, once Player.move() is over.
Render ==
    /\ pc = "idle"
    /\ result.op = "applyGravity"
    /\ result' = [op |-> "render", scene |-> scene]
    /\ UNCHANGED <<config, camera, singletons, perlin, collidables, chunks, constructed, accessed, render, player, pc>>

\* animate() of Game.start: Player.move(), the render, and the next frame on
\* requestAnimationFrame.
NextGame ==
    \/ \E keys \in {{}, {"Space"}, {"KeyW"}} : \E forward \in ForwardsFor(keys) :
            /\ result.op # "applyGravity"
            /\ HandleKeyInputs(keys, forward)
            /\ withinReach(player'.position)
    \/ UpdateGroundedState
    \/ ApplyGravity
    \/ Render

NextIdle ==
    \/ HandleKeyInputs({}, <<0, -1>>)
    \/ UpdateGroundedState
    \/ ApplyGravity

Next ==
    \/ pc = "idle" /\ NextWorld
    \/ pc = "idle" /\ NextRender
    \/ NextPlayer
    \/ NextNoise
    \/ NextCollidable
    \/ NextScene
    \/ NextFactory
    \/ NextSingleton
    \/ NextFine
    \/ NextLattice
    \/ pc = "idle" /\ NextCamera
    \/ NextWorldSize

Spec == Init /\ [][Next]_vars
SpecWorld == InitWorld /\ [][NextWorld]_vars
SpecTerrain == InitTerrain /\ [][NextWorld]_vars
SpecRender == InitRender /\ [][NextRender]_vars
SpecPlayer == InitPlayer /\ [][NextPlayer]_vars
SpecBoundary == InitBoundary /\ [][NextBoundary]_vars
SpecFloor == InitFloor /\ [][NextFloor]_vars
SpecGame == InitPlayer /\ [][NextGame]_vars
SpecSingleton == InitSingleton /\ [][NextSingleton]_vars
SpecFactory == InitScene /\ [][NextFactory]_vars
SpecScene == InitScene /\ [][NextScene]_vars
SpecCollidable == InitCollidable /\ [][NextCollidable]_vars
SpecNoise == InitNoise /\ [][NextNoise]_vars
SpecFine == InitFine /\ [][NextFine]_vars
SpecLattice == InitNoise /\ [][NextLattice]_vars
SpecCamera == InitScene /\ [][NextCamera]_vars
SpecWorldSize == InitWorld /\ [][NextWorldSize]_vars
SpecIdle == Init /\ [][NextIdle]_vars
\* requestAnimationFrame schedules the next frame from inside every frame.
SpecIdleFair == SpecIdle /\ WF_vars(NextIdle)

(***************************************************************************)
(* Properties of World.                                                    *)
(***************************************************************************)
\* The chunk index of the position the last World operation was asked about.
resultIndex == getChunkIndexes(result.position)
resultInBounds == isChunkInBoundaries(resultIndex.x, resultIndex.z)
isQuery == result.op \in {"getChunkAtPosition", "getBlockAtPosition"}

\* C1: for every position whose chunk index is inside the world, the local
\* x and z computed by getBlockAtPosition lie in [0, CHUNK_SIZE), the chunk's
\* anchor plus the local index is (floor x, floor y, floor z), and a block
\* returned for the position is the block at floor(position), the one the
\* chunk's grid holds at that local index.
C1_RoundTrip ==
    (result.op = "getBlockAtPosition" /\ resultInBounds) =>
        LET p == result.position
            b == blockIndexes(p)
            chunk == chunks[<<resultIndex.x, resultIndex.z>>]
        IN  /\ chunk # Null
            /\ b.x \in 0 .. CHUNK_SIZE - 1
            /\ b.z \in 0 .. CHUNK_SIZE - 1
            /\ chunk.position.x + b.x = Floor(p.x)
            /\ b.y = Floor(p.y)
            /\ chunk.position.z + b.z = Floor(p.z)
            /\ result.value # Null =>
                    /\ result.value.position = Vec(Floor(p.x), Floor(p.y), Floor(p.z))
                    /\ \E c \in cellsOf(chunk) :
                            /\ chunk.blocks[c[1]][c[2]][c[3]] = result.value
                            /\ c = <<b.x, b.y, b.z>>

\* C1 witness: a block was returned for a negative, fractional position.
C1_Witness ==
    /\ result.op = "getBlockAtPosition"
    /\ result.position.x < 0 /\ result.position.x % U # 0
    /\ result.position.z < 0 /\ result.position.z % U # 0
    /\ result.value # Null
    /\ result.value.position.x = Floor(result.position.x)

\* C2: a chunk exists exactly when its index has been accessed (none before
\* the first access, which creates it), it has been built once, an access
\* returns the chunk the map holds, and a step never replaces or removes a
\* created chunk.
C2_LazyCached ==
    /\ [](/\ \A i \in ChunkIndexes : chunks[i] # Null <=> i \in accessed
          /\ \A i \in ChunkIndexes : constructed[i] <= 1
          /\ (result.op = "getChunkAtPosition" /\ resultInBounds) =>
                result.value = chunks[<<resultIndex.x, resultIndex.z>>])
    /\ [][\A i \in ChunkIndexes : chunks[i] # Null => chunks'[i] = chunks[i]]_vars

\* C2 witness: a chunk index was accessed by a query after the nearby-chunk
\* enumeration had created other chunks, and the map holds several chunks.
C2_Witness ==
    /\ result.op = "getChunkAtPosition"
    /\ result.value # Null
    /\ Cardinality(accessed) > 9
    /\ \A i \in accessed : constructed[i] = 1

\* C3: for a position whose chunk index is outside the world the queries
\* return absent and leave the chunk map as it was; for an in-bounds chunk
\* and floor(y) outside [0, depth) getBlockAtPosition returns absent (not an
\* error).
C3_OutOfBounds ==
    /\ [](/\ (isQuery /\ ~resultInBounds) => result.value = Null
          /\ (result.op = "getBlockAtPosition" /\ resultInBounds
                /\ Floor(result.position.y) \notin 0 .. WORLD_SIZE_depth - 1)
                    => result.value = Null
          /\ isQuery => result.value # [type |-> "TypeError"])
    /\ [][(isQuery' /\ ~resultInBounds') =>
            /\ chunks' = chunks
            /\ accessed' = accessed
            /\ constructed' = constructed]_vars

\* C3 witness: a block was asked for outside the world while chunks exist,
\* or above the depth of an existing chunk.
C3_Witness ==
    /\ result.op = "getBlockAtPosition"
    /\ accessed # {}
    /\ \/ ~resultInBounds
       \/ resultInBounds /\ Floor(result.position.y) >= WORLD_SIZE_depth

(***************************************************************************)
(* Properties of Chunk's visibility culling.                               *)
(***************************************************************************)
\* The chunks some visibility update has gone through.
culledChunks == {i \in ChunkIndexes : culledAt[i] # Null}

\* The square of the distance between a block and a position, in units.
distance2(block, position) ==
    (block.position.x * U - position.x) * (block.position.x * U - position.x)
        + (block.position.y * U - position.y) * (block.position.y * U - position.y)
        + (block.position.z * U - position.z) * (block.position.z * U - position.z)

withinRenderDistance(block, position) ==
    distance2(block, position)
        < ((RENDER_BLOCK_DISTANCE + 1) * U) * ((RENDER_BLOCK_DISTANCE + 1) * U)

\* C4: after a chunk's updateRenderedBlocks(playerPos) with a frustum, every
\* block of the chunk is in the render set if and only if it is exposed, its
\* distance to playerPos is less than renderDistance + 1 and it intersects
\* the frustum, whatever the render set held before.
C4_RenderSet ==
    \A i \in culledChunks :
        \A c \in cellsOf(chunks[i]) :
            LET block == chunks[i].blocks[c[1]][c[2]][c[3]]
            IN  block.position \in scene <=>
                    /\ isBlockExposed(chunks[i], c[1], c[2], c[3])
                    /\ withinRenderDistance(block, culledAt[i])
                    /\ isBlockInFrustrum(frustum[i], block)

\* C4 witness: one updated chunk has a block in the render set, an exposed
\* block in the frustum that is too far, and an exposed block near enough
\* that is outside the frustum.
C4_Witness ==
    \E i \in culledChunks :
        LET blockAt(c) == chunks[i].blocks[c[1]][c[2]][c[3]]
            exposed == {c \in cellsOf(chunks[i]) :
                            isBlockExposed(chunks[i], c[1], c[2], c[3])}
        IN  /\ \E c \in exposed : blockAt(c).position \in scene
            /\ \E c \in exposed :
                    /\ isBlockInFrustrum(frustum[i], blockAt(c))
                    /\ ~withinRenderDistance(blockAt(c), culledAt[i])
                    /\ blockAt(c).position \notin scene
            /\ \E c \in exposed :
                    /\ ~isBlockInFrustrum(frustum[i], blockAt(c))
                    /\ withinRenderDistance(blockAt(c), culledAt[i])
                    /\ blockAt(c).position \notin scene

\* The six unit-axis offsets.
sixOffsets == {<<-1, 0, 0>>, <<1, 0, 0>>, <<0, -1, 0>>, <<0, 1, 0>>, <<0, 0, -1>>, <<0, 0, 1>>}

\* The cell is outside the chunk's grid or holds no block.
absentOrOutside(chunk, x, y, z) ==
    \/ x \notin 0 .. CHUNK_SIZE - 1
    \/ y \notin 0 .. WORLD_SIZE_depth - 1
    \/ z \notin 0 .. CHUNK_SIZE - 1
    \/ chunk.blocks[x][y][z] = Null

\* C5: a block is exposed if and only if at least one of its six unit-axis
\* neighbours is absent or outside the chunk's grid; a block with six
\* neighbours present is not exposed.
C5_Exposed ==
    \A i \in ChunkIndexes :
        chunks[i] # Null =>
            \A c \in cellsOf(chunks[i]) :
                isBlockExposed(chunks[i], c[1], c[2], c[3]) <=>
                    \E o \in sixOffsets :
                        absentOrOutside(chunks[i], c[1] + o[1], c[2] + o[2], c[3] + o[3])

\* C5 witness: a chunk went through an update holding a block whose six
\* neighbours are all present, and a block whose only missing neighbour is
\* the one above it.
C5_Witness ==
    \E i \in culledChunks :
        /\ \E c \in cellsOf(chunks[i]) :
                \A o \in sixOffsets :
                    ~absentOrOutside(chunks[i], c[1] + o[1], c[2] + o[2], c[3] + o[3])
        /\ \E c \in cellsOf(chunks[i]) :
                /\ isBlockExposed(chunks[i], c[1], c[2], c[3])
                /\ \A o \in sixOffsets \ {<<0, 1, 0>>} :
                    ~absentOrOutside(chunks[i], c[1] + o[1], c[2] + o[2], c[3] + o[3])

(***************************************************************************)
(* Properties of the player's tick.                                        *)
(***************************************************************************)
\* The step is Player.applyGravity taking its falling branch with a velocity
\* that is not positive, towards a candidate position above the floor.
candidateY == player.position.y + fallVelocity(player.velocityY)
candidateBottom == candidateY - PLAYER_DIMENSIONS.height \div 2
isVerticalStep ==
    /\ pc = "groundDone" /\ pc' = "idle"
    /\ ~(player.isGrounded /\ ~player.isJumping)
    /\ fallVelocity(player.velocityY) <= 0
    /\ candidateY > PLAYER_VERTICAL_OFFSET

\* The block columns under the player's footprint.
footprint ==
    LET box == getNextPositionBoundingBox(player.position)
    IN  (Round(box.min.x) .. Round(box.max.x)) \X (Round(box.min.z) .. Round(box.max.z))

\* The terrain at a block position (a chunk not created yet is generated the same).
blockOfTerrain(x, y, z) == getBlockAt(TheWorld, Vec(x, y, z)).value

\* The player has come to rest on top of level y.
landedOn(y) ==
    /\ player'.position = [player.position EXCEPT !.y = y * U + U + PLAYER_VERTICAL_OFFSET]
    /\ player'.velocityY = 0
    /\ player'.isGrounded
    /\ ~player'.isJumping

\* The levels of the blocks under the footprint whose top face is at or below
\* the candidate box's bottom.
levelsBelow ==
    {y \in 0 .. WORLD_SIZE_depth - 1 :
        /\ y * U + U \div 2 <= candidateBottom
        /\ \E c \in footprint : blockOfTerrain(c[1], y, c[2]) # Null}

\* C6 as stated: in a vertical step with velocityY <= 0 above the floor, if
\* any block under the footprint has its top face at or below the candidate
\* box's bottom, the player lands on the highest such block.
C6_AsStated ==
    [][(isVerticalStep /\ levelsBelow # {}) =>
            landedOn(CHOOSE y \in levelsBelow : \A y2 \in levelsBelow : y2 <= y)]_vars

\* The level the candidate box's bottom lies in, and whether the footprint
\* holds a block there whose centre is below that bottom.
candidateLevel == Floor(candidateBottom)
supportAtCandidate ==
    /\ candidateLevel * U < candidateBottom
    /\ \E c \in footprint : blockOfTerrain(c[1], candidateLevel, c[2]) # Null

\* C6, amended: in a vertical step with velocityY <= 0 above the floor the
\* player lands exactly when the footprint holds a block at the level of the
\* candidate box's bottom, with its centre below that bottom; it is then
\* placed on top of that level with velocityY = 0, grounded and not jumping,
\* and no block of the collision enumeration with its centre below the
\* bottom is higher or lower than that level; otherwise the player falls by
\* the full velocity and is not grounded.
C6_Landing ==
    [][isVerticalStep =>
        /\ \A k \in 1 .. Len(getAllCollidingBlocks(TheWorld,
                        getNextPositionBoundingBox(
                            [player.position EXCEPT !.y = candidateY])).value) :
                LET b == getAllCollidingBlocks(TheWorld,
                            getNextPositionBoundingBox(
                                [player.position EXCEPT !.y = candidateY])).value[k]
                IN  b.position.y * U < candidateBottom => b.position.y = candidateLevel
        /\ IF supportAtCandidate
           THEN landedOn(candidateLevel)
           ELSE /\ player'.position = [player.position EXCEPT !.y = candidateY]
                /\ player'.velocityY = fallVelocity(player.velocityY)
                /\ ~player'.isGrounded
                /\ player'.isJumping = player.isJumping]_vars

\* C6 witness: the player stands on a block above the floor, at the end of a
\* tick, after a fall from the spawn.
C6_Witness ==
    /\ pc = "idle" /\ result.op = "applyGravity"
    /\ player.isGrounded /\ ~player.isJumping /\ player.velocityY = 0
    /\ player.position.y > PLAYER_VERTICAL_OFFSET
    /\ \E y \in 0 .. WORLD_SIZE_depth - 1 :
            /\ player.position.y = y * U + U + PLAYER_VERTICAL_OFFSET
            /\ \E c \in footprint : blockOfTerrain(c[1], y, c[2]) # Null

\* The spawn is directly above a block at y = 0 with nothing in between.
spawnAboveGround ==
    /\ blockOfTerrain(PLAYER_SPAWN_POSITION.x \div U, 0, PLAYER_SPAWN_POSITION.z \div U) # Null
    /\ \A y \in 1 .. WORLD_SIZE_depth - 1 :
            blockOfTerrain(PLAYER_SPAWN_POSITION.x \div U, y, PLAYER_SPAWN_POSITION.z \div U) = Null

\* The player rests on the block at y = 0.
settled ==
    /\ player.position.y = 0 * U + U + PLAYER_VERTICAL_OFFSET
    /\ player.velocityY = 0
    /\ player.isGrounded

\* C7: a player spawned at y = 5 directly above a block at y = 0, receiving
\* no input, reaches after finitely many ticks position.y = 0 + 1 +
\* PLAYER_VERTICAL_OFFSET with velocityY = 0 and isGrounded, and stays so.
C7_Settles == spawnAboveGround => <>[]settled

\* C7 witness: in that world the player has come to rest at the end of a tick.
C7_Witness ==
    /\ spawnAboveGround
    /\ settled
    /\ pc = "idle" /\ result.op = "applyGravity"
    /\ player.position.x = PLAYER_SPAWN_POSITION.x
    /\ player.position.z = PLAYER_SPAWN_POSITION.z

\* C8: a jump request in a state with isGrounded and not isJumping sets
\* velocityY to the jump impulse, isGrounded to false and isJumping to true;
\* in every other state it leaves velocityY, isGrounded and isJumping as they
\* were; it never changes position.y, and with no other key down it leaves
\* the whole position unchanged.
C8_Jump ==
    [][(pc = "idle" /\ pc' = "keysDone" /\ result'.jump) =>
        /\ player'.position.y = player.position.y
        /\ IF player.isGrounded /\ ~player.isJumping
           THEN /\ player'.velocityY = JUMP_VELOCITY
                /\ ~player'.isGrounded
                /\ player'.isJumping
           ELSE /\ player'.velocityY = player.velocityY
                /\ player'.isGrounded = player.isGrounded
                /\ player'.isJumping = player.isJumping
        /\ (\E forward \in Forwards : HandleKeyInputs({"Space"}, forward))
                => player'.position = player.position]_vars

\* C8 witness: a jump request has just taken effect.
C8_Witness ==
    /\ pc = "keysDone" /\ result.op = "handleKeyInputs" /\ result.jump
    /\ player.isJumping /\ ~player.isGrounded
    /\ player.velocityY = JUMP_VELOCITY

\* C9: at the end of every tick isJumping and isGrounded are never both
\* true; a tick that ends grounded ends with isJumping false.
C9_JumpingIsAirborne ==
    pc = "idle" => ~(player.isJumping /\ player.isGrounded)

\* C9 witness: a tick ends in the falling half of a jump, airborne.
C9_Witness ==
    /\ pc = "idle" /\ result.op = "applyGravity"
    /\ player.isJumping /\ ~player.isGrounded
    /\ player.velocityY + JUMP_VELOCITY > 0

\* C10: the downward speed never exceeds the maximum fall speed.
C10_MaxFallSpeed == player.velocityY >= -MAX_VELOCITY

(***************************************************************************)
(* C11.  World boundaries.                                                 *)
(***************************************************************************)
\* The configured world bounds on x and z: the grid of WORLD_SIZE.size chunks
\* centred on the origin, blocks centred on whole coordinates.
boundsMin == -((WORLD_SIZE_size * CHUNK_SIZE * U) \div 2) - U \div 2
boundsMax == (WORLD_SIZE_size * CHUNK_SIZE * U) \div 2 - U \div 2

\* The player's AABB at a position lies inside the bounds on x and z.
insideWorld(position) ==
    /\ position.x - PLAYER_DIMENSIONS.width \div 2 >= boundsMin
    /\ position.x + PLAYER_DIMENSIONS.width \div 2 <= boundsMax
    /\ position.z - PLAYER_DIMENSIONS.length \div 2 >= boundsMin
    /\ position.z + PLAYER_DIMENSIONS.length \div 2 <= boundsMax

\* C11: a move whose candidate AABB would exit the world bounds on x or z
\* leaves the position unchanged, and the player's AABB is inside the bounds
\* on x and z in every state.
C11_WorldBounds ==
    /\ [](insideWorld(player.position))
    /\ [][(pc' = "keysDone" /\ result'.candidate # Null
                /\ ~insideWorld(result'.candidate))
            => player'.position = player.position]_vars

\* C11 witness: the frame's move asked for a position outside the bounds and
\* the player stayed inside.
C11_Witness ==
    /\ pc = "keysDone" /\ result.op = "handleKeyInputs"
    /\ result.candidate # Null
    /\ ~insideWorld(result.candidate)
    /\ insideWorld(player.position)

(***************************************************************************)
(* C12.  A horizontal move is applied in full or not at all.               *)
(***************************************************************************)
\* The step is a handleKeyInputs whose snapshot held exactly one move key.
isLoneMove == pc = "idle" /\ pc' = "keysDone" /\ result'.candidate # Null

\* [a1, a2] and [b1, b2] overlap (touching included, as Box3.intersectsBox).
overlap(a1, a2, b1, b2) == a1 <= b2 /\ b1 <= a2

\* Some block of the terrain at a level strictly above the bottom face of the
\* player's box at position c intersects that box.
sideBlocked(c) ==
    \E box \in {getNextPositionBoundingBox(c)} :
        \E x \in (box.min.x \div U - 1) .. (box.max.x \div U + 2),
           y \in 0 .. WORLD_SIZE_depth - 1,
           z \in (box.min.z \div U - 1) .. (box.max.z \div U + 2) :
            /\ y * U > box.min.y
            /\ overlap(x * U - U \div 2, x * U + U \div 2, box.min.x, box.max.x)
            /\ overlap(y * U - U \div 2, y * U + U \div 2, box.min.y, box.max.y)
            /\ overlap(z * U - U \div 2, z * U + U \div 2, box.min.z, box.max.z)
            /\ blockOfTerrain(x, y, z) # Null

\* The move changes nothing but the position on x and z; velocityY and the
\* flags change only by the jump of the same snapshot.
onlySlides ==
    /\ player'.position.y = player.position.y
    /\ ~result'.jump => /\ player'.velocityY = player.velocityY
                        /\ player'.isGrounded = player.isGrounded
                        /\ player'.isJumping = player.isJumping

isFloorStep ==
    /\ pc = "groundDone" /\ pc' = "idle"
    /\ ~(player.isGrounded /\ ~player.isJumping)
    /\ fallVelocity(player.velocityY) <= 0
    /\ candidateY <= PLAYER_VERTICAL_OFFSET

\* C13: a vertical step with velocityY <= 0 whose candidate y is at or below
\* the floor offset puts position.y exactly on the floor offset with
\* velocityY = 0, grounded and not jumping, and position.y is never below
\* PLAYER_VERTICAL_OFFSET.
C13_Floor ==
    /\ [](player.position.y >= PLAYER_VERTICAL_OFFSET)
    /\ [][isFloorStep =>
            /\ player'.position = [player.position EXCEPT !.y = PLAYER_VERTICAL_OFFSET]
            /\ player'.velocityY = 0
            /\ player'.isGrounded
            /\ ~player'.isJumping]_vars

\* C13 witness: a tick has ended with the player snapped to the floor offset.
C13_Witness ==
    /\ pc = "idle" /\ result.op = "applyGravity"
    /\ player.position.y = PLAYER_VERTICAL_OFFSET
    /\ player.velocityY = 0
    /\ player.isGrounded /\ ~player.isJumping

(***************************************************************************)
(* C14.  The order of a frame.                                             *)
(***************************************************************************)
\* World.updateRenderedBlocks has run for the chunks near the player with
\* the position the player has now.
culledForPlayer ==
    \E idxs \in {nearbyIndexes(player.position)} :
        \A k \in 1 .. Len(idxs) : culledAt[idxs[k]] = player.position

\* C14: a frame is handed to the renderer only after Player.move() and after
\* World.updateRenderedBlocks has run with the player's new position.
C14_FrameOrder == result.op = "render" => culledForPlayer
(***************************************************************************)
(* PerlinNoise                                                             *)
(***************************************************************************)
\* noise(x, y) of a generator just built with seed s: the value that does not
\* depend on any earlier call.
sample(s, x, y) == noise(NewPerlinNoise(s), x, y).value

\* The cache keys a call noise(x, y) looks up.
lookedUp(x, y) == DOMAIN noise(NewPerlinNoise(0), x, y).perlin.gradients

\* C15: for a fixed seed, noise(x, y) returns the same value for the same
\* (x, y) whatever calls were made before it: every call, on whatever cache
\* the earlier calls left, returns the value a generator just built with that
\* seed returns, so the cache never changes the value and two generators with
\* one seed agree at every point.
C15_Stable ==
    result.op = "noise" =>
        result.value = sample(perlin[result.generator].seed, result.x, result.y)

\* A call that found some of its gradients cached by a call at another point
\* and had to compute the others, and returned a value other than 0.
C15_Witness ==
    /\ result.op = "noise"
    /\ result.value.num # 0
    /\ lookedUp(result.x, result.y) \cap result.cached # {}
    /\ ~(lookedUp(result.x, result.y) \subseteq result.cached)

\* The seeds the generators are built with, and the noise field of each seed
\* over the quarter grid of [-2, 2] x [-2, 2].
FieldSeeds == {seeds[g] : seeds \in NoiseSeeds, g \in NoiseGenerators}
FieldPoints == (-2 * NOISE_UNIT .. 2 * NOISE_UNIT) \X (-2 * NOISE_UNIT .. 2 * NOISE_UNIT)
noiseField == [s \in FieldSeeds |-> [p \in FieldPoints |-> sample(s, p[1], p[2])]]

\* -1 <= num / den <= 1
inRange(value) ==
    /\ value.den > 0
    /\ -value.den <= value.num
    /\ value.num <= value.den

\* C16: for every seed and every (x, y), the value noise(x, y) returns,
\* total / maxValue over the five octaves, lies in [-1, 1]: for every call
\* made, and (looked at once, before the first call) over the whole field.
C16_Range ==
    /\ result.op = "noise" => inRange(result.value)
    /\ result.op = "none" =>
            \A s \in FieldSeeds, p \in FieldPoints : inRange(noiseField[s][p])

\* A call that returned a value of magnitude above 1/4.
C16_Witness ==
    /\ result.op = "noise"
    /\ \/ 4 * result.value.num > result.value.den
       \/ 4 * result.value.num < -result.value.den

\* C17: two generators built with distinct integer seeds differ in at least
\* one point: there is an (x, y) where they return different values.
C17_SeedsDiffer ==
    perlin[1].seed # perlin[2].seed =>
        \E p \in FieldPoints :
            noiseField[perlin[1].seed][p] # noiseField[perlin[2].seed][p]

\* The squared length of a direction.
length2(gradient) == gradient[1] * gradient[1] + gradient[2] * gradient[2]

\* The lattice points the hash is looked at on.
LatticeRange == -24 .. 24

\* The hash index is defined: one of 0 .. 7, for every lattice point and seed.
indexDefined ==
    \A s \in FieldSeeds, ix \in LatticeRange, iy \in LatticeRange :
        hashIndex(s, ix, iy) \in 0 .. Len(gradients) - 1

\* Every cached gradient is the table's direction at the hash index of its key.
cachedFromTable ==
    \A g \in NoiseGenerators : \A key \in DOMAIN perlin[g].gradients :
        perlin[g].gradients[key]
            = gradients[hashIndex(perlin[g].seed, key[1], key[2]) + 1]

\* A step keeps every cache entry as it is.
appendOnly ==
    \A g \in NoiseGenerators : \A key \in DOMAIN perlin[g].gradients :
        /\ key \in DOMAIN perlin'[g].gradients
        /\ perlin'[g].gradients[key] = perlin[g].gradients[key]

generatedColumns ==
    {<<i, x, z>> \in ChunkIndexes \X (0 .. CHUNK_SIZE - 1) \X (0 .. CHUNK_SIZE - 1) :
        chunks[i] # Null}

\* The block of a generated column at level y.
columnBlock(c, y) == chunks[c[1]].blocks[c[2]][y][c[3]]

\* The levels of a column holding a block of the given type.
levelsOf(c, type) ==
    {y \in 0 .. WORLD_SIZE_depth - 1 :
        columnBlock(c, y) # Null /\ columnBlock(c, y).type = type}

\* The height of the stack the first pass builds in a column: the number of
\* levels y = 0, 1, ... below the column's continuous height.
stackHeight(c) ==
    Cardinality({y \in 0 .. WORLD_SIZE_depth - 1 :
        4 * y < columnHeight(c[2] + chunks[c[1]].position.x,
                             c[3] + chunks[c[1]].position.z)})

\* highestBlockY of a column: its top level, 0 for a column of zero height.
highestBlockYOf(c) == IF stackHeight(c) = 0 THEN 0 ELSE stackHeight(c) - 1

C20_GrassDirtStone ==
    \A c \in generatedColumns :
        highestBlockYOf(c) >= SEA_LEVEL =>
            /\ levelsOf(c, "Grass") = {highestBlockYOf(c)}
            /\ levelsOf(c, "Dirt")
                 = (IF highestBlockYOf(c) >= 1 THEN {highestBlockYOf(c) - 1} ELSE {})
            /\ levelsOf(c, "Stone") = 0 .. highestBlockYOf(c) - 2
            /\ levelsOf(c, "Water") = {}
            /\ \A y \in highestBlockYOf(c) + 1 .. WORLD_SIZE_depth - 1 :
                    columnBlock(c, y) = Null

\* A generated chunk with a column that is not flooded and has Grass at
\* level 1 on Dirt at level 0, and one with Stone under the Dirt.
C20_Witness ==
    \E c1, c2 \in generatedColumns :
        /\ highestBlockYOf(c1) >= SEA_LEVEL /\ highestBlockYOf(c1) = 1
        /\ highestBlockYOf(c2) >= SEA_LEVEL /\ levelsOf(c2, "Stone") # {}

\* The continuous height of a generated column, in quarter blocks.
heightOf(c) ==
    columnHeight(c[2] + chunks[c[1]].position.x, c[3] + chunks[c[1]].position.z)

\* The levels of a generated column that hold Stone after the first pass.
stonePass(c) == {y \in 0 .. WORLD_SIZE_depth - 1 : stoneLevel(heightOf(c), y)}

\* C21: after the first generation pass, in every column of continuous height
\* h exactly the levels 0 .. floor(h) hold Stone (those of them the chunk has),
\* also when h is an exact integer.
C21_StonePass ==
    \A c \in generatedColumns :
        stonePass(c) = (0 .. heightOf(c) \div 4) \cap (0 .. WORLD_SIZE_depth - 1)

(***************************************************************************)
(* Collidable                                                              *)
(***************************************************************************)
\* |a - b|
distance1(a, b) == IF a >= b THEN a - b ELSE b - a

\* Two cubes of side BOX_GEOMETRY_SIZE centred at p and q overlap (or touch)
\* on all three axes.
axesOverlap(p, q) ==
    /\ distance1(p.x, q.x) <= BOX_GEOMETRY_SIZE * COLLIDABLE_UNIT
    /\ distance1(p.y, q.y) <= BOX_GEOMETRY_SIZE * COLLIDABLE_UNIT
    /\ distance1(p.z, q.z) <= BOX_GEOMETRY_SIZE * COLLIDABLE_UNIT

\* C22: a.checkObjectCollision(b) equals b.checkObjectCollision(a), and is
\* true exactly when the boxes at the two current positions overlap on all
\* three axes (touching faces count as overlap).
C22_Symmetric ==
    result.op = "checkObjectCollision" =>
        /\ result.value
             = checkObjectCollision(collidables[result.other],
                                    collidables[result.collidable]).value
        /\ result.value
             <=> axesOverlap(collidables[result.collidable].position,
                             collidables[result.other].position)

\* The test's second case: the cube at (0, 0, 0) asked about the other cube
\* after that one was moved to (10, 10, 10); no collision.
C22_Witness ==
    /\ result.op = "checkObjectCollision"
    /\ collidables[result.collidable].position = Vec(0, 0, 0)
    /\ collidables[result.other].position = Vec(100, 100, 100)
    /\ ~result.value

\* C23: every collision query after a position change, by the setter or by
\* a write through the getter's vector, is evaluated against the box
\* current position +- half-extents.
C23_FreshBox ==
    /\ result.op = "checkPointCollision" =>
        (result.value
            <=> containsPoint(setFromObject(collidables[result.collidable].position),
                              result.position))
    /\ result.op = "checkObjectCollision" =>
        (result.value
            <=> intersectsBox(setFromObject(collidables[result.collidable].position),
                              setFromObject(collidables[result.other].position)))

(***************************************************************************)
(* The world under the player and the renderer                             *)
(***************************************************************************)
\* The chunks that exist.
existingChunks == {i \in ChunkIndexes : chunks[i] # Null}

\* C24: no step of a player tick, for any key state and any player state,
\* changes an existing chunk: its block layout and every block's material and
\* position stay as generated.  The block queries of the tick may only add
\* chunks that did not exist.
C24_PlayerReadsOnly ==
    [][\A i \in existingChunks : chunks'[i] = chunks[i]]_vars

\* The player has moved off the spawn, its queries have created more than
\* one chunk, and a tick is under way.
C24_Witness ==
    /\ Cardinality(existingChunks) >= 2
    /\ player.position.z # PLAYER_SPAWN_POSITION.z
    /\ pc = "groundDone"

\* C25: updateRenderedBlocks changes render-set membership and no chunk data:
\* every chunk that existed before the call holds, in every grid cell, the
\* same block (or absence) with the same material and position after it, and
\* a chunk the call created holds its blocks as generated.
C25_PureFilter ==
    [][result'.op = "updateRenderedBlocks" =>
        /\ \A i \in existingChunks : chunks'[i] = chunks[i]
        /\ \A i \in ChunkIndexes :
            chunks[i] = Null /\ chunks'[i] # Null =>
                chunks'[i].blocks = generateTerrain(chunks'[i].position)]_vars

\* After a call, some blocks of the existing chunks are in the render set and
\* others are not.
C25_Witness ==
    /\ result.op = "updateRenderedBlocks"
    /\ scene # {}
    /\ \E i \in existingChunks : \E c \in cellsOf(chunks[i]) :
        chunks[i].blocks[c[1]][c[2]][c[3]].position \notin scene

\* The chunks World.updateRenderedBlocks visited in the last call and the
\* frustums they were given: that of the first chunk and that of the others.
lastNearbyChunks ==
    [k \in DOMAIN nearbyIndexes(result.position) |->
        chunks[nearbyIndexes(result.position)[k]]]
lastRun ==
    Only({<<frustum[idxs[1]], frustum[idxs[IF Len(idxs) >= 2 THEN 2 ELSE 1]]>> :
          idxs \in {nearbyIndexes(result.position)}})

\* C26: adding a block already in the render set and removing a block not in
\* it leave the render set unchanged; no block is in the render set more than
\* once; and a second updateRenderedBlocks with the same player position and
\* the same frustums yields the render set of the first.
C26_Idempotent ==
    /\ \A object \in BagToSet(children) : CopiesIn(object, children) = 1
    /\ scene = BagToSet(children)
    /\ result.op = "addToScene" /\ includes(result.children, result.object) =>
            children = result.children
    /\ result.op = "removeFromScene" /\ ~includes(result.children, result.object) =>
            children = result.children
    /\ result.op = "updateRenderedBlocks" =>
            \E nearbyChunks \in {lastNearbyChunks} :
                /\ sceneAfter(scene, nearbyChunks, Len(nearbyChunks),
                              result.position, lastRun) = scene
                /\ childrenAfter(children, nearbyChunks, scene) = children

\* addToScene was called on a block that was in the render set already.
C26_Witness ==
    /\ result.op = "addToScene"
    /\ includes(result.children, result.object)
    /\ BagCardinality(children) >= 2

(***************************************************************************)
(* BlockFactory                                                            *)
(***************************************************************************)
\* C27: createBlock with a type that is not one of the recognized types
\* throws an Error and returns no block, of a default material or any other;
\* with a recognized type it returns a block of that type at the position.
C27_FailFast ==
    result.op = "createBlock" =>
        IF result.type \in {"Dirt", "Grass", "Snow", "Stone", "Water"}
        THEN result.value = [type |-> result.type, position |-> result.position]
        ELSE /\ "thrown" \in DOMAIN result.value
             /\ "type" \notin DOMAIN result.value

\* createBlock was called with a type the switch has no case for.
C27_Witness ==
    /\ result.op = "createBlock"
    /\ result.type = "Sand"

\* r = ceil(RENDER_BLOCK_DISTANCE / CHUNK_SIZE): the least r with
\* r * CHUNK_SIZE >= RENDER_BLOCK_DISTANCE.
chunkRadius ==
    CHOOSE r \in 0 .. RENDER_BLOCK_DISTANCE :
        /\ r * CHUNK_SIZE >= RENDER_BLOCK_DISTANCE
        /\ \A q \in 0 .. r - 1 : q * CHUNK_SIZE < RENDER_BLOCK_DISTANCE

\* The in-bounds grid indexes within the square of radius r around the chunk
\* index of a position.
squareAround(position) ==
    {i \in ChunkIndexes :
        /\ distance1(i[1], getChunkIndexes(position).x) <= chunkRadius
        /\ distance1(i[2], getChunkIndexes(position).z) <= chunkRadius}

\* The grid index a chunk was built for, from its anchor.
indexOfChunk(chunk) ==
    <<chunk.position.x \div CHUNK_SIZE + WORLD_SIZE_size \div 2,
      chunk.position.z \div CHUNK_SIZE + WORLD_SIZE_size \div 2>>

\* C28: getNearbyChunks(pos) returns exactly the chunks at the in-bounds
\* indexes (cx + dx, cz + dz) with |dx| <= r and |dz| <= r, each once,
\* creating those that did not exist and keeping those that did; after
\* World.updateRenderedBlocks(pos) every such chunk exists.
C28_NearbyChunks ==
    [][result'.op = "updateRenderedBlocks" =>
        \E nearbyChunks \in {getNearbyChunks(TheWorld, result'.position)} :
            /\ \A k \in DOMAIN nearbyChunks.value : nearbyChunks.value[k] # Null
            /\ {indexOfChunk(nearbyChunks.value[k]) : k \in DOMAIN nearbyChunks.value}
                    = squareAround(result'.position)
            /\ Len(nearbyChunks.value) = Cardinality(squareAround(result'.position))
            /\ \A k \in DOMAIN nearbyChunks.value :
                    /\ chunks'[indexOfChunk(nearbyChunks.value[k])] = nearbyChunks.value[k]
                    /\ chunks[indexOfChunk(nearbyChunks.value[k])] # Null =>
                        chunks[indexOfChunk(nearbyChunks.value[k])] = nearbyChunks.value[k]
            /\ \A i \in squareAround(result'.position) : chunks'[i] # Null]_vars

\* A call at a position whose square is clipped by the grid's edge, which
\* with chunks of 3 blocks has the radius ceil(2 / 3) = 1.
C28_Witness ==
    /\ result.op = "updateRenderedBlocks"
    /\ CHUNK_SIZE = 3
    /\ squareAround(result.position) # {}
    /\ Cardinality(squareAround(result.position)) < 9
    /\ \A i \in squareAround(result.position) : chunks[i] # Null

(***************************************************************************)
(* Singletons.                                                             *)
(***************************************************************************)
\* No class is constructed twice, and only the Scene has its object replaced.
constructedOnce ==
    \A class \in SingletonClasses :
        /\ singletons[class].constructed <= 1
        /\ singletons[class].instance \in {0, singletons[class].constructed}
        /\ class # "Scene" => singletons[class].made <= 1

\* What one call answers, given the static fields it found.
sameAnswer ==
    /\ (result'.op = "getInstance") =>
        (/\ result'.value = 1
         /\ result'.value = singletons'[result'.class].instance
         /\ (result'.before.instance # 0) =>
                (/\ result'.value = result'.before.instance
                 /\ singletons' = singletons))
    /\ (result'.op = "getObject") =>
        (/\ result'.value = singletons'[result'.class].object
         /\ (result'.before.object # 0) =>
                (/\ result'.value = result'.before.object
                 /\ singletons' = singletons))
    /\ (result'.op = "reset" /\ result'.value = Null) =>
        (/\ singletons'["Scene"].object > result'.before.made
         /\ singletons'["Scene"].object # result'.before.object
         /\ singletons'["Scene"].instance = result'.before.instance)

\* C29: every getInstance() of Scene, Camera and Renderer returns the one
\* instance of its class, which is constructed at most once; getScene()
\* returns the scene it returned before until a reset() that completes,
\* after which it returns a scene that no earlier call returned.
C29_Singletons == []constructedOnce /\ [][sameAnswer]_vars

\* getScene() answering with the second scene, after a reset replaced the
\* first.
C29_Witness ==
    /\ result.op = "getObject"
    /\ result.class = "Scene"
    /\ result.before.made = 2
    /\ result.value = 2
    /\ singletons["Scene"].constructed = 1

(***************************************************************************)
(* Smoothness of the noise.                                                *)
(***************************************************************************)
\* The rounding of the operators on hundredths, as a fraction of 1.0: they
\* are within 1 / NOISE_SLACK of the values the code computes.
NOISE_SLACK == 100

\* |a - b| for two values of one denominator, as a numerator.
distanceOf(a, b) == IF a.num >= b.num THEN a.num - b.num ELSE b.num - a.num

\* C30: the noise at a point and the noise one step of 1/100 away along x
\* or along y differ by less than 0.5 in absolute value (here: by less
\* than 0.5 with the rounding of the model taken off).
C30_Smooth ==
    result.op = "noiseStep" =>
        /\ result.first.den = result.second.den
        /\ 2 * (distanceOf(result.first, result.second)
                    + result.first.den \div NOISE_SLACK) < result.first.den

\* Two samples on the two sides of a lattice line that differ.
C30_Witness ==
    /\ result.op = "noiseStep"
    /\ (result.x + result.dx) % FINE_UNIT = 0
    /\ result.dx = 1
    /\ distanceOf(result.first, result.second) > 0

(***************************************************************************)
(* The grounded flag a jump reads.                                         *)
(***************************************************************************)
\* What the zero-delta probe of updateGroundedState answers for the player
\* as it stands.
probeGrounded == updateGroundedState(ThePlayer).player.isGrounded

\* A jump impulse was given by the handleKeyInputs step just taken.
jumpStarted == result'.op = "handleKeyInputs" /\ player'.isJumping /\ ~player.isJumping

\* C31: the grounded flag is recomputed by a zero-delta probe before any
\* force of the tick: a jump starts only from a position at which the probe
\* finds a block or the floor beneath the player, also in a tick whose
\* horizontal move carried the player off a ledge.
C31_ProbeBeforeJump == [][jumpStarted => probeGrounded']_vars

(***************************************************************************)
(* Resting.                                                                *)
(***************************************************************************)
\* The player stands on the floor, or its box's bottom face is on the top
\* face of a block under its footprint.
onSupport ==
    \/ player.position.y = PLAYER_VERTICAL_OFFSET
    \/ \E y \in 0 .. WORLD_SIZE_depth - 1 :
            /\ player.position.y = y * U + U + PLAYER_VERTICAL_OFFSET
            /\ \E c \in footprint : blockOfTerrain(c[1], y, c[2]) # Null

\* C32: a tick with no key pressed that starts with the player grounded,
\* not jumping, on a block or on the floor, sets velocityY to 0 and leaves
\* position, isGrounded and isJumping as they were.
C32_RestIsFixedPoint ==
    (pc = "idle" /\ player.isGrounded /\ ~player.isJumping /\ onSupport) =>
        \A forward \in Forwards :
            move(ThePlayer, {}, forward).player = [player EXCEPT !.velocityY = 0]

\* A tick starts with the player at rest on a block above the floor, at a
\* place it has walked to.
C32_Witness ==
    /\ pc = "idle" /\ result.op = "applyGravity"
    /\ player.isGrounded /\ ~player.isJumping /\ onSupport
    /\ player.position.y > PLAYER_VERTICAL_OFFSET
    /\ player.position.z # PLAYER_SPAWN_POSITION.z
    /\ move(ThePlayer, {}, <<0, -1>>).player = player

(***************************************************************************)
(* The noise at lattice points.                                            *)
(***************************************************************************)
\* Both coordinates of the point sampled are integers.
atLatticePoint == result.x % NOISE_UNIT = 0 /\ result.y % NOISE_UNIT = 0

NewWorld ==
    [chunks |-> [i \in ChunkIndexes |-> Null],
     constructed |-> [i \in ChunkIndexes |-> 0],
     accessed |-> {}]

\* The material of a block, "absent" for no block.
materialOf(block) == IF block = Null THEN "absent" ELSE block.type

C35_NoStaleBlocks ==
    result.op = "updateRenderedBlocks" =>
        \A i \in existingChunks :
            \A c \in cellsOf(chunks[i]) :
                LET block == chunks[i].blocks[c[1]][c[2]][c[3]]
                IN  block.position \in scene =>
                        /\ isBlockExposed(chunks[i], c[1], c[2], c[3])
                        /\ withinRenderDistance(block, result.position)

(***************************************************************************)
(* The camera under the visibility update.                                 *)
(***************************************************************************)
\* C36: the visibility update leaves the shared camera unchanged: its
\* projection matrix and its view matrix after the call equal those before
\* it.
C36_CameraUnchanged ==
    [][result'.op = "updateRenderedBlocks" => camera' = camera]_vars

(***************************************************************************)
(* The player's boundary and the chunk grid.                               *)
(***************************************************************************)
\* The block positions (x, z) whose column the player's box at a position
\* covers: the block's cell and the box share more than a face.
coveredColumns(position) ==
    LET box == getNextPositionBoundingBox(position)
    IN  {c \in (Round(box.min.x) - 1 .. Round(box.max.x) + 1)
                \X (Round(box.min.z) - 1 .. Round(box.max.z) + 1) :
            /\ c[1] * U - U \div 2 < box.max.x /\ box.min.x < c[1] * U + U \div 2
            /\ c[2] * U - U \div 2 < box.max.z /\ box.min.z < c[2] * U + U \div 2}

\* Every block position the player's box at a position covers belongs to a
\* chunk inside the grid of the given size.
coveredInGrid(size, position) ==
    \A c \in coveredColumns(position) :
        \E i \in {getChunkIndexesIn(size, Vec(c[1] * U, 0, c[2] * U))} :
            isChunkInBoundariesIn(size, i.x, i.z)

\* The boundary check accepts the player standing at the centre of every
\* column of every chunk of the grid of the given size.
columnsReachable(size) ==
    \A x \in 0 .. size - 1, z \in 0 .. size - 1 :
        \A dx \in 0 .. CHUNK_SIZE - 1, dz \in 0 .. CHUNK_SIZE - 1 :
            ~handleBoundariesCollisionIn(size,
                Vec((chunkPositionIn(size, x, z).x + dx) * U, 5 * U,
                    (chunkPositionIn(size, x, z).z + dz) * U))

\* C37: for every world size, odd or even, a position the boundary check
\* accepts has every block position under the player's box in a chunk of the
\* grid, and every column of every chunk of the grid can be stood on inside
\* the bounds.
C37_BoundaryIsGrid ==
    result.op = "handleBoundariesCollision" =>
        /\ ~result.value => coveredInGrid(result.size, result.position)
        /\ columnsReachable(result.size)

\* The same for the even world sizes only.
evenSizesCoincide ==
    (result.op = "handleBoundariesCollision" /\ result.size % 2 = 0) =>
        /\ ~result.value => coveredInGrid(result.size, result.position)
        /\ columnsReachable(result.size)

(***************************************************************************)
(* The shape of a generated column.                                        *)
(***************************************************************************)
\* The levels of a generated column that hold a block.
filledLevels(c) == {y \in 0 .. WORLD_SIZE_depth - 1 : columnBlock(c, y) # Null}

\* C38: every generated column is contiguous from the bottom: for some level
\* t exactly the levels 0 .. t hold a block (no gap, no floating block, no
\* empty level 0), and every stored block's world position is the chunk's
\* anchor plus the block's grid index.
C38_Contiguous ==
    \A c \in generatedColumns :
        /\ \E t \in 0 .. WORLD_SIZE_depth - 1 : filledLevels(c) = 0 .. t
        /\ \A y \in filledLevels(c) :
                columnBlock(c, y).position
                    = Vec(chunks[c[1]].position.x + c[2], y, chunks[c[1]].position.z + c[3])

\* A generated chunk away from the origin with a column of three blocks or
\* more, a column that leaves levels empty, and a flooded column.
C38_Witness ==
    \E c1, c2, c3 \in generatedColumns :
        /\ c1[1] = c2[1] /\ c2[1] = c3[1]
        /\ chunks[c1[1]].position.x # 0 /\ chunks[c1[1]].position.z # 0
        /\ Cardinality(filledLevels(c1)) >= 3
        /\ Cardinality(filledLevels(c2)) < WORLD_SIZE_depth
        /\ levelsOf(c3, "Water") # {} /\ levelsOf(c3, "Stone") # {}

(***************************************************************************)
(* The grounded player at the end of a tick.                               *)
(***************************************************************************)
\* The tick has ended: applyGravity, the last step of Player.move, is done.
tickEnded == pc = "idle" /\ result.op = "applyGravity"

\* C39: at the end of every tick a grounded player has no vertical velocity
\* and rests exactly on a support: on the floor offset, or with the bottom
\* face of its box on the top face of a block under its footprint.
C39_GroundedRests ==
    (tickEnded /\ player.isGrounded) => (player.velocityY = 0 /\ onSupport)

\* The velocity half of the same statement.
groundedIsStill == (tickEnded /\ player.isGrounded) => player.velocityY = 0

====
